---- MODULE Spec2Model ----
(***************************************************************************)
(* AutoCompresor: the batch compression engine (core/compressor.py), the   *)
(* session statistics of the logger (core/logger.py) and the relocation    *)
(* bookkeeping of the file manager (core/file_manager.py).                 *)
(*                                                                         *)
(* Threads: each worker w executes compress_files on the one shared        *)
(* engine; the control thread calls pause(), resume() and stop().  Every   *)
(* step is one statement (or one block that touches no state another       *)
(* thread reads in between).                                               *)
(***************************************************************************)
EXTENDS Integers, Sequences, FiniteSets, TLC

VARIABLES
    is_running,         \* CompressorEngine.is_running
    is_paused,          \* CompressorEngine.is_paused
    should_stop,        \* CompressorEngine.should_stop
    pause_event,        \* CompressorEngine._pause_event: TRUE when set
    file_counter,       \* CompressorEngine.file_counter
    current_session,    \* CustomLogger.current_session: <<>> is None, <<s>> a SessionStats
    sessions_history,   \* CustomLogger.sessions_history
    backup_operations,  \* FileManager.backup_operations
    pc,                 \* pc[w]: position of worker w inside compress_files
    config,             \* config[w]: the CompressionConfig of w's call
    loc,                \* loc[w]: the locals of _process_files (i, processed, ...)
    result,             \* result[w]: <<>> or <<r>>, the CompressionResult w's last call returned
    eff,                \* eff[w]: what w's current call did: scan, backup folder, archives on disk,
                        \*   originals relocated, the files whose processing it began, in order,
                        \*   the calls it made of the progress and of the file callback, the
                        \*   archive names _generate_zip_name returned, what _compress_single_file
                        \*   returned for each file, the archive writes, the verifications and the moves it tried,
                        \*   and the archives on disk that do not hold their source faithfully
    ctl,                \* position of the control thread inside pause/resume/stop
    runs,               \* number of compress_files calls made so far
    scan_total,         \* number of files the scans of all calls have returned so far
    pauseDone,          \* history: pause() returned on a running engine, no resume()/stop() called since
    stopDone,           \* history: stop() returned on a running engine during the current run
    ctlRun,             \* history: the run (value of runs) the current stop() call was made on, 0 if idle
    blockedAtStop,      \* history: a stop() call of the current run found the worker blocked on the pause wait
    raised,             \* history: raised[w]: the step of the current file that raised, or "none"
    existing,           \* the directory of a colliding path: the intervals <<a, b>> of the n whose
                        \*   "{stem}_{n}{ext}" exists
    now,                \* the clock datetime.now() reads, in seconds
    rpc,                \* position of the thread inside _resolve_conflict / _generate_unique_name
    counter,            \* the local counter of _generate_unique_name
    resolution,         \* the ConflictResolution of the current _resolve_conflict call
    resolved,           \* <<>> or what the last _resolve_conflict call returned
    checks,             \* history: exists() calls the current _generate_unique_name call has made
    prevResolved,       \* history: the name the _generate_unique_name call before this one returned
    createdSince,       \* history: the last name returned has been created on disk since
    calls,              \* number of _resolve_conflict calls made so far
    logcall,            \* the last call a client made of the logger directly: its number, the
                        \*   method and its arguments; n is the number of calls made so far
    root,               \* the directory scan_directory is called on: what the path names and
                        \*   whether it can be listed
    tree,               \* tree[n]: the entry n below it: a file, a directory or neither, its
                        \*   name, and whether it can be read (a directory: listed)
    file_filters,       \* the file_filters argument: a list of patterns, <<>> for None or []
    include_subfolders, \* the include_subfolders argument
    found,              \* <<>> or what scan_directory returned: the files of its list
    scan_error,         \* "none" or the exception that left scan_directory
    log_queue,          \* CustomLogger.log_queue: the items put and not yet taken
    ui_delivered,       \* history: ui_delivered[cb]: the messages UI callback cb was called with
    submitted,          \* number of log_operation calls made so far; the k-th message is k
    taken,              \* number of items the log worker has taken from the queue
    platform,           \* "posix" or "nt": what Path.rename does when the target exists
    disk,               \* the folder of the files to rename: pairs <<name, content>>
    renamer,            \* the FileRenamer: files, operations, preview_cache, the results and
                        \*   the position of apply_rename, its dry_run argument
    clobbered,          \* history: the names a rename was made onto while a file was there
    fs,                 \* the paths that exist: <<"source", s, 0>>, and <<"archive", name, v>>
                        \*   and <<"backup", name, v>> with v = 0 for the plain name, n for
                        \*   the name numbered _n, -1 for the name with a timestamp
    sources,            \* sources[s]: the archive name and the backup name of source s
    job,                \* job[w]: where run w of the rename policy stands: its position, the
                        \*   index of its file, its zip_path and its destination
    overwritten,        \* history: the paths written or moved to while they existed
    padding,            \* the NumberingHelper calls on one file name: the name at the start,
                        \*   the target length, the name now and the calls made on it
    rollback            \* the thread inside rollback_backup_operations: its position, the index
                        \*   of its reversed() iterator and reverted_count, what its last call
                        \*   returned; history: the list that call found, the entries it handled
                        \*   and how, and the number of calls made so far

runVars == <<is_running, is_paused, should_stop, pause_event, file_counter,
             current_session, sessions_history, backup_operations,
             pc, config, loc, result, eff, ctl, runs, scan_total,
             pauseDone, stopDone, ctlRun, blockedAtStop, raised>>

resolverVars == <<existing, now, rpc, counter, resolution, resolved, checks,
                  prevResolved, createdSince, calls>>

undoVars == <<rollback>>

logVars == <<logcall>>

scanVars == <<root, tree, file_filters, include_subfolders, found, scan_error>>

sinkVars == <<log_queue, ui_delivered, submitted, taken>>

renameVars == <<platform, disk, renamer, clobbered>>

padVars == <<padding>>

fileVars == <<fs, sources, job, overwritten>>

vars == <<runVars, resolverVars, undoVars, logVars, scanVars, sinkVars, renameVars, padVars,
          fileVars>>

engineVars  == <<is_running, is_paused, should_stop, pause_event, file_counter>>
loggerVars  == <<current_session, sessions_history>>
historyVars == <<pauseDone, stopDone, ctlRun, blockedAtStop>>

-----------------------------------------------------------------------------
(* Bounds of the model *)

\* files the scans of one behaviour return in total
NumFiles == 2
\* compress_files calls in one behaviour
MaxRuns == 2

\* rollback_backup_operations calls in one behaviour
MaxRollbacks == 2

\* calls a client makes of the logger directly in one behaviour
MaxLogCalls == 4

\* messages submitted to log_operation in one behaviour
MaxMessages == 3

\* _resolve_conflict calls in one behaviour
MaxCalls == 3
\* seconds the clock advances in one behaviour
MaxClock == 1

Workers == {1, 2}

-----------------------------------------------------------------------------
(* Configuration: core/config_manager.py and CompressionConfig *)

\* A template is a sequence of tokens: a placeholder <<"var", name>>, literal
\* text <<"lit", text>>, or <<"bad">>, a brace that str.format cannot parse.
variables ==
    {"fecha", "fecha_corta", "hora", "timestamp", "nombre_original",
     "contador", "extension_original", "numero_factura"}

get_naming_patterns ==
    [fecha_archivo     |-> << <<"var", "fecha">>, <<"lit", "_">>, <<"var", "nombre_original">> >>,
     archivo_fecha     |-> << <<"var", "nombre_original">>, <<"lit", "_">>, <<"var", "fecha">> >>,
     contador_archivo  |-> << <<"var", "contador">>, <<"lit", "_">>, <<"var", "nombre_original">> >>,
     timestamp_archivo |-> << <<"var", "timestamp">>, <<"lit", "_">>, <<"var", "nombre_original">> >>,
     nombre_original   |-> << <<"var", "nombre_original">> >>,
     personalizado     |-> << <<"var", "fecha_archivo">> >>]

ConflictResolution == {"rename", "overwrite", "skip", "ask"}

\* The default configuration and the ways one field of it can differ.
BaseConfig ==
    [source              |-> "dir",       \* what source_folder names: dir, missing, file, unreadable
     compression_level   |-> 6,
     naming_pattern      |-> "contador_archivo",
     custom_pattern      |-> <<>>,
     conflict_resolution |-> "rename",
     verify_integrity    |-> TRUE]

Configs ==
    {BaseConfig}
    \cup {[BaseConfig EXCEPT !.source = s] : s \in {"missing", "file", "unreadable"}}
    \cup {[BaseConfig EXCEPT !.compression_level = l] : l \in {-1, 0, 9, 10}}
    \cup {[BaseConfig EXCEPT !.naming_pattern = p] : p \in {"personalizado", "desconocido"}}
    \cup {[BaseConfig EXCEPT !.naming_pattern = "personalizado", !.custom_pattern = t] :
             t \in { << <<"var", "nombre_original">>, <<"lit", "_">>, <<"var", "contador">> >>,
                     << <<"lit", "x">>, <<"bad">> >> }}
    \cup {[BaseConfig EXCEPT !.conflict_resolution = r] : r \in {"skip", "ask", "replace"}}
    \cup {[BaseConfig EXCEPT !.verify_integrity = FALSE]}

\* Path(config.source_folder).exists(), .is_dir(), and validate_permissions()['readable']
SourceExists(c)   == c.source # "missing"
SourceIsDir(c)    == c.source \in {"dir", "unreadable"}
SourceReadable(c) == c.source \in {"dir", "file"}

_validate_config_NoUpperLevel(c) ==
    (IF ~SourceExists(c) THEN <<"Carpeta origen no existe">>
     ELSE IF ~SourceIsDir(c) THEN <<"La ruta origen no es un directorio">>
     ELSE <<>>)
    \o (IF ~SourceReadable(c) THEN <<"Sin permisos de lectura en carpeta origen">> ELSE <<>>)
    \o (IF ~(0 <= c.compression_level)
        THEN <<"Nivel de compresion debe estar entre 0 y 9">> ELSE <<>>)
    \o (IF c.naming_pattern \notin DOMAIN get_naming_patterns /\ c.naming_pattern # "personalizado"
        THEN <<"Patron de nomenclatura invalido">> ELSE <<>>)

\* CompressorEngine._validate_config: the list of errors found
_validate_config(c) ==
    (IF ~SourceExists(c) THEN <<"Carpeta origen no existe">>
     ELSE IF ~SourceIsDir(c) THEN <<"La ruta origen no es un directorio">>
     ELSE <<>>)
    \o (IF ~SourceReadable(c) THEN <<"Sin permisos de lectura en carpeta origen">> ELSE <<>>)
    \o (IF ~(0 <= c.compression_level /\ c.compression_level <= 9)
        THEN <<"Nivel de compresion debe estar entre 0 y 9">> ELSE <<>>)
    \o (IF c.naming_pattern \notin DOMAIN get_naming_patterns /\ c.naming_pattern # "personalizado"
        THEN <<"Patron de nomenclatura invalido">> ELSE <<>>)

\* _generate_zip_name, lines 428-432: the template the name is made from
SelectPattern(c) ==
    IF c.naming_pattern = "personalizado" /\ c.custom_pattern # <<>>
    THEN c.custom_pattern
    ELSE IF c.naming_pattern \in DOMAIN get_naming_patterns
         THEN get_naming_patterns[c.naming_pattern]
         ELSE get_naming_patterns["fecha_archivo"]

\* pattern.format(**variables): "ok", or the exception of the first token that fails
RECURSIVE Format(_)
Format(tokens) ==
    IF tokens = <<>> THEN "ok"
    ELSE LET t == Head(tokens) IN
         IF t[1] = "bad" THEN "ValueError"
         ELSE IF t[1] = "var" /\ t[2] \notin variables THEN "KeyError"
         ELSE Format(Tail(tokens))

\* the placeholders of a template, in order
RECURSIVE Placeholders(_)
Placeholders(tokens) ==
    IF tokens = <<>> THEN <<>>
    ELSE (IF Head(tokens)[1] = "var" THEN <<Head(tokens)[2]>> ELSE <<>>)
         \o Placeholders(Tail(tokens))

\* _generate_zip_name, lines 447-456: the name returned for file f when format
\* gives status and the counter is n.  A name is the template it was made from
\* ("fallback" for the date-and-stem name of line 454), the file whose stem it
\* carries, the counter value substituted for {contador} (0 when the template has
\* none) and the extension appended at line 456.
ZipName(c, f, status, n) ==
    IF status = "ok"
    THEN [template |-> c.naming_pattern, stem |-> f,
          contador |-> IF \E k \in 1..Len(Placeholders(SelectPattern(c))) :
                             Placeholders(SelectPattern(c))[k] = "contador"
                       THEN n ELSE 0,
          ext |-> ".zip"]
    ELSE [template |-> "fallback", stem |-> f, contador |-> 0, ext |-> ".zip"]

NextCounter_Always(status, n) == n + 1

\* lines 449-454: self.file_counter += 1 follows a format that succeeded
NextCounter(status, n) == IF status = "ok" THEN n + 1 ELSE n

\* sizes of the scanned files and of their archives
FileSize(f)       == 4 * f
CompressedSize(f) == f + 1

-----------------------------------------------------------------------------
(* Session statistics: core/logger.py *)

SessionStats(id) ==
    [session_id |-> id, ended |-> FALSE, total_files |-> 0,
     processed_files |-> 0, failed_files |-> 0, skipped_files |-> 0,
     total_original_size |-> 0, total_compressed_size |-> 0,
     errors |-> <<>>, warnings |-> <<>>]

log_file_operation_ErrorAddsBytes(cur, f, status, original_size, compressed_size, error_msg) ==
    IF cur = <<>> THEN <<>>
    ELSE LET s == cur[1] IN
         IF status = "success" THEN
             << [s EXCEPT !.processed_files = @ + 1,
                          !.total_original_size = @ + original_size,
                          !.total_compressed_size = @ + compressed_size] >>
         ELSE IF status = "error" THEN
             << [s EXCEPT !.failed_files = @ + 1,
                          !.total_original_size = @ + original_size,
                          !.total_compressed_size = @ + compressed_size,
                          !.errors = IF error_msg # "" THEN Append(@, <<f, error_msg>>) ELSE @] >>
         ELSE IF status = "skip" THEN
             << [s EXCEPT !.skipped_files = @ + 1,
                          !.warnings = IF error_msg # "" THEN Append(@, <<f, error_msg>>) ELSE @] >>
         ELSE cur

\* CustomLogger.log_file_operation on the session cur (<<>> when there is none);
\* error_msg "" stands for a missing or empty message
log_file_operation(cur, f, status, original_size, compressed_size, error_msg) ==
    IF cur = <<>> THEN <<>>
    ELSE LET s == cur[1] IN
         IF status = "success" THEN
             << [s EXCEPT !.processed_files = @ + 1,
                          !.total_original_size = @ + original_size,
                          !.total_compressed_size = @ + compressed_size] >>
         ELSE IF status = "error" THEN
             << [s EXCEPT !.failed_files = @ + 1,
                          !.errors = IF error_msg # "" THEN Append(@, <<f, error_msg>>) ELSE @] >>
         ELSE IF status = "skip" THEN
             << [s EXCEPT !.skipped_files = @ + 1,
                          !.warnings = IF error_msg # "" THEN Append(@, <<f, error_msg>>) ELSE @] >>
         ELSE cur

\* CustomLogger.update_session_stats(total_files=n)
update_session_stats(cur, n) ==
    IF cur = <<>> THEN <<>> ELSE << [cur[1] EXCEPT !.total_files = n] >>

end_session_KeepsNothing(cur, hist) == hist

end_session_LeavesOpen(cur, hist) ==
    IF cur = <<>> THEN hist ELSE Append(hist, cur[1])

\* CustomLogger.end_session: the history after it
end_session(cur, hist) ==
    IF cur = <<>> THEN hist ELSE Append(hist, [cur[1] EXCEPT !.ended = TRUE])

-----------------------------------------------------------------------------
(* Initial state: CompressorEngine.__init__, CustomLogger.__init__, FileManager.__init__ *)

NoLocals ==
    [i |-> 0, total_files |-> 0, processed |-> 0, failed |-> 0, skipped |-> 0,
     total_saved |-> 0, errors |-> <<>>, session_id |-> 0]

NoEffects ==
    [scanned |-> FALSE, backup_created |-> FALSE, archived |-> {}, relocated |-> {},
     begun |-> <<>>, reported |-> <<>>, notified |-> <<>>, names |-> <<>>,
     outcomes |-> <<>>, writes |-> <<>>, checked |-> <<>>, moves |-> <<>>,
     unfaithful |-> {}]

EngineInit ==
    /\ is_running = FALSE
    /\ is_paused = FALSE
    /\ should_stop = FALSE
    /\ pause_event = TRUE
    /\ file_counter = 1
    /\ current_session = <<>>
    /\ sessions_history = <<>>
    /\ backup_operations = <<>>
    /\ pc = [w \in Workers |-> "idle"]
    /\ config = [w \in Workers |-> BaseConfig]
    /\ loc = [w \in Workers |-> NoLocals]
    /\ result = [w \in Workers |-> <<>>]
    /\ eff = [w \in Workers |-> NoEffects]
    /\ ctl = "idle"
    /\ runs = 0
    /\ scan_total = 0
    /\ pauseDone = FALSE
    /\ stopDone = FALSE
    /\ ctlRun = 0
    /\ blockedAtStop = FALSE
    /\ raised = [w \in Workers |-> "none"]

\* the resolver at rest, before a directory drawn from D
ResolverInit(D) ==
    /\ existing \in D
    /\ now = 0
    /\ rpc = "idle"
    /\ counter = 0
    /\ resolution = "rename"
    /\ resolved = <<>>
    /\ checks = 0
    /\ prevResolved = <<>>
    /\ createdSince = FALSE
    /\ calls = 0

-----------------------------------------------------------------------------
(* Directory scan: core/file_manager.py lines 107-179 *)

\* The entries below the scanned directory, 0: entries 1 and 2 are in it, entry 3
\* is in entry 2 and entry 4 in entry 3, when these are directories.
Parent == <<0, 0, 2, 3>>

Entries == DOMAIN Parent

Children(p) == {n \in Entries : Parent[n] = p}

\* file names and patterns are sequences of characters
FileNames == { <<"a", ".", "t">>, <<"A", ".", "T">>, <<"a", ".", "z">> }

\* an entry is a regular file (item.is_file()), a directory (item.is_dir()) or
\* neither; a file is readable when os.access(path, R_OK) says so (line 55), a
\* directory when iterdir() does not raise PermissionError
FileEntries == {[kind |-> "file", name |-> n, readable |-> r] : n \in FileNames, r \in BOOLEAN}
DirEntries  == {[kind |-> "dir", name |-> <<"d">>, readable |-> r] : r \in BOOLEAN}
NoEntry     == [kind |-> "other", name |-> <<>>, readable |-> FALSE]

EmptyTree == [n \in Entries |-> NoEntry]

\* the directory trees of the scans: entries 1 and 4 are files or nothing
Trees ==
    {t \in [Entries -> FileEntries \cup DirEntries \cup {NoEntry}] :
        t[1].kind # "dir" /\ t[4].kind # "dir"}

\* what the scanned path can be: a directory that can be listed or not, a file,
\* nothing, or a path whose stat() fails with an error other than "not found"
\* (a parent directory without search permission, a name too long)
Roots ==
    {[kind |-> "dir", readable |-> TRUE], [kind |-> "dir", readable |-> FALSE],
     [kind |-> "file", readable |-> TRUE], [kind |-> "missing", readable |-> FALSE],
     [kind |-> "inaccessible", readable |-> FALSE]}

\* the filter lists of the scans
FilterLists ==
    { <<>>,
      << <<"*">> >>,
      << <<"*", ".", "t">> >>,
      << <<"?", ".", "T">> >>,
      << <<"*", ".", "z">>, <<"A", "*", "t">> >>,
      << <<"*", ".", "q">>, <<"*">> >> }

\* str.lower() on one character and on a string
LowerChar(c) == IF c = "A" THEN "a" ELSE IF c = "T" THEN "t" ELSE c
Lower(str) == [k \in 1..Len(str) |-> LowerChar(str[k])]

\* fnmatch.fnmatch(name, pat) for patterns made of characters, "*" and "?"
RECURSIVE fnmatch(_, _)
fnmatch(name, pat) ==
    IF pat = <<>> THEN name = <<>>
    ELSE IF Head(pat) = "*"
         THEN fnmatch(name, Tail(pat)) \/ (name # <<>> /\ fnmatch(Tail(name), pat))
    ELSE IF name = <<>> THEN FALSE
    ELSE (Head(pat) = "?" \/ Head(pat) = Head(name)) /\ fnmatch(Tail(name), Tail(pat))

_matches_filters_CaseSensitive(filename, filters) ==
    IF filters = <<>> \/ \E k \in 1..Len(filters) : filters[k] = <<"*">>
    THEN TRUE
    ELSE \E k \in 1..Len(filters) : fnmatch(filename, filters[k])

\* FileManager._matches_filters, lines 172-179
_matches_filters(filename, filters) ==
    IF filters = <<>> \/ \E k \in 1..Len(filters) : filters[k] = <<"*">>
    THEN TRUE
    ELSE \E k \in 1..Len(filters) : fnmatch(Lower(filename), Lower(filters[k]))

\* process_files(path), lines 133-150, on the directory p, which can be listed:
\* the files it appends to the list.  A subdirectory that cannot be listed raises
\* PermissionError inside its own call, which logs it and returns.
RECURSIVE process_files(_, _, _, _)
process_files(t, p, filters, subfolders) ==
    UNION { IF t[n].kind = "file"
            THEN IF _matches_filters(t[n].name, filters) /\ t[n].readable THEN {n} ELSE {}
            ELSE IF t[n].kind = "dir" /\ subfolders /\ t[n].readable
                 THEN process_files(t, n, filters, subfolders)
                 ELSE {}
            : n \in Children(p) }

\* FileManager.scan_directory, lines 118-160: the files of the list it returns
\* (iterdir() fixes no order, and no entry is visited twice)
scan_directory(r, t, subfolders, filters) ==
    IF r.kind # "dir" \/ ~r.readable THEN {}
    ELSE process_files(t, 0, IF filters = <<>> THEN << <<"*">> >> ELSE filters, subfolders)

\* before the scan of a tree drawn from T with a filter list drawn from Fs
ScanInit(T, Fs) ==
    /\ root \in (IF T = {EmptyTree} THEN {[kind |-> "dir", readable |-> TRUE]} ELSE Roots)
    /\ tree \in T
    /\ file_filters \in Fs
    /\ include_subfolders \in (IF T = {EmptyTree} THEN {FALSE} ELSE BOOLEAN)
    /\ found = <<>>
    /\ scan_error = "none"

\* line 119: directory.exists() is called outside every try of scan_directory;
\* Path.exists() answers False when stat() says the path is not there and lets
\* every other OSError through
ExistsRaises(r) == r.kind = "inaccessible"

\* a scan_directory call
ScanCall ==
    /\ found = <<>>
    /\ scan_error = "none"
    /\ IF ExistsRaises(root)
       THEN scan_error' = "OSError" /\ UNCHANGED found
       ELSE /\ found' = << scan_directory(root, tree, include_subfolders, file_filters) >>
            /\ UNCHANGED scan_error
    /\ UNCHANGED <<root, tree, file_filters, include_subfolders, runVars>>

\* no rollback_backup_operations call made yet
UndoInit ==
    rollback = [pc |-> "idle", index |-> 0, reverted_count |-> 0, returned |-> <<>>,
                ops |-> <<>>, handled |-> <<>>, calls |-> 0]

-----------------------------------------------------------------------------
(* Batch renaming: core/renamer.py lines 50-328 *)

\* File names are sequences of characters.  They stand for the stem of the name:
\* _apply_single_operation splits the extension off (line 150) and appends it
\* back unchanged (line 191).
Stems == { <<"a">>, <<"a", "1">>, <<"a", "2">> }

\* sorted(), line 127: the order of the loaded files
StemOrder == << <<"a">>, <<"a", "1">>, <<"a", "2">> >>

\* the operations of the batches
Operations ==
    {[operation_type |-> "remove", value |-> "1"],
     [operation_type |-> "remove", value |-> "2"],
     [operation_type |-> "suffix", value |-> "1"]}

\* the operation lists of the batches: none, one or two operations
OperationLists ==
    {<<>>} \cup {<<o>> : o \in Operations} \cup {<<o, q>> : o \in Operations, q \in Operations}

\* FileRenamer._apply_single_operation, lines 145-191, for 'suffix' and 'remove'
\* with a value of one character
_apply_single_operation(name, operation) ==
    IF operation.operation_type = "suffix" THEN Append(name, operation.value)
    ELSE IF operation.operation_type = "remove"
         THEN SelectSeq(name, LAMBDA c : c # operation.value)
    ELSE name

\* lines 205-207: every operation applied in order
RECURSIVE ApplyOperations(_, _)
ApplyOperations(name, ops) ==
    IF ops = <<>> THEN name
    ELSE ApplyOperations(_apply_single_operation(name, Head(ops)), Tail(ops))

\* Path.exists() in the folder
OnDisk(d, name) == \E e \in d : e[1] = name

PreviewConflict_WithItself(d, original_name, new_name) == OnDisk(d, new_name)

\* line 221: new_path.exists() and str(new_path) != file_path; the paths of
\* self.files are str(Path(...)) (lines 123, 137), so that in one folder the
\* strings differ exactly when the names do
PreviewConflict(d, original_name, new_name) ==
    OnDisk(d, new_name) /\ new_name # original_name

\* lines 199-227: the preview of one file
FileRenamePreview(d, original_name, ops) ==
    LET new_name == ApplyOperations(original_name, ops)
        has_conflict == PreviewConflict(d, original_name, new_name)
    IN [original_name |-> original_name, new_name |-> new_name,
        has_conflict |-> has_conflict,
        conflict_reason |-> IF has_conflict THEN "El archivo ya existe"
                            ELSE IF new_name = original_name THEN "Sin cambios" ELSE ""]

\* FileRenamer.generate_preview, lines 193-229: the preview cache it builds
generate_preview(d, files, ops) ==
    [i \in 1..Len(files) |-> FileRenamePreview(d, files[i], ops)]

\* lines 263-268: the results before the first entry
NoResults == [success |-> <<>>, errors |-> <<>>, skipped |-> <<>>, total_processed |-> 0]

\* a FileRenamer with its files loaded from a folder drawn from D and its
\* operations from O, before any preview; the content of a file is named after
\* the name it has at the start
RenameInit(D, O) ==
    /\ platform \in (IF D = {{}} THEN {"posix"} ELSE {"posix", "nt"})
    /\ \E names \in D, ops \in O :
          /\ disk = {<<n, n>> : n \in names}
          /\ \E loaded \in SUBSET names :
                /\ names # {} => loaded # {}
                /\ renamer = [files |-> SelectSeq(StemOrder, LAMBDA n : n \in loaded),
                              operations |-> ops, preview_cache |-> <<>>,
                              results |-> NoResults, pc |-> "idle", i |-> 0, dry_run |-> FALSE]
    /\ clobbered = {}

\* a generate_preview call
PreviewCall ==
    /\ renamer.pc = "idle"
    /\ renamer.preview_cache = <<>>
    /\ renamer.files # <<>>
    /\ renamer' = [renamer EXCEPT
                      !.preview_cache = generate_preview(disk, renamer.files, renamer.operations)]
    /\ UNCHANGED <<platform, disk, clobbered, runVars>>

\* FileRenamer.apply_rename, lines 260-273: the preview is generated when there
\* is none, the results are reset
ApplyCall ==
    /\ renamer.pc = "idle"
    /\ renamer.files # <<>>
    /\ \E dry_run \in BOOLEAN :
          renamer' = [renamer EXCEPT
                         !.preview_cache = IF @ = <<>>
                                           THEN generate_preview(disk, renamer.files, renamer.operations)
                                           ELSE @,
                         !.results = NoResults, !.pc = "apply", !.i = 1, !.dry_run = dry_run]
    /\ UNCHANGED <<platform, disk, clobbered, runVars>>

\* lines 274-321, one entry of the preview cache: skipped when nothing changes or
\* when the preview found a conflict; else old_path.rename(new_path), which
\* raises when the source is gone, and when the target exists replaces it on
\* POSIX and raises FileExistsError on Windows
ApplyEntry ==
    /\ renamer.pc = "apply"
    /\ renamer.i <= Len(renamer.preview_cache)
    /\ LET preview == renamer.preview_cache[renamer.i]
           counted == [renamer.results EXCEPT !.total_processed = @ + 1]
           old == preview.original_name
           new == preview.new_name
           Done(res) == renamer' = [renamer EXCEPT !.results = res, !.i = @ + 1]
       IN IF old = new
          THEN /\ Done([counted EXCEPT !.skipped = Append(@, <<old, "Sin cambios">>)])
               /\ UNCHANGED <<disk, clobbered>>
          ELSE IF preview.has_conflict
          THEN /\ Done([counted EXCEPT !.skipped = Append(@, <<old, preview.conflict_reason>>)])
               /\ UNCHANGED <<disk, clobbered>>
          ELSE IF renamer.dry_run
          THEN /\ Done([counted EXCEPT !.success = Append(@, <<old, new>>)])
               /\ UNCHANGED <<disk, clobbered>>
          ELSE IF ~OnDisk(disk, old) \/ (OnDisk(disk, new) /\ platform = "nt")
          THEN /\ Done([counted EXCEPT !.errors = Append(@, <<old, "Error renombrando">>)])
               /\ UNCHANGED <<disk, clobbered>>
          ELSE /\ Done([counted EXCEPT !.success = Append(@, <<old, new>>)])
               /\ disk' = {e \in disk : e[1] \notin {old, new}}
                              \cup {<<new, e[2]>> : e \in {x \in disk : x[1] = old}}
               /\ clobbered' = IF OnDisk(disk, new) THEN clobbered \cup {new} ELSE clobbered
    /\ UNCHANGED <<platform, runVars>>

\* lines 323-326: apply_rename returns the results
ApplyReturn ==
    /\ renamer.pc = "apply"
    /\ renamer.i > Len(renamer.preview_cache)
    /\ renamer' = [renamer EXCEPT !.pc = "done"]
    /\ UNCHANGED <<platform, disk, clobbered, runVars>>

-----------------------------------------------------------------------------
(* Padding of the numbers of a name: utils/rename_operations.py lines 281-318 *)

\* the longest file name
MaxNameLen == 3

\* the largest target length
MaxPadding == 3

\* the most NumberingHelper calls on one name
MaxPadCalls == 2

\* The characters of the names: a letter, the ASCII digits 0 and 1, and the
\* ARABIC-INDIC DIGITS ZERO and ONE, which are decimal digits of Unicode too.
Chars == {"a", "0", "1", "U+0660", "U+0661"}

\* the pattern \d of a str pattern, lines 295 and 313: every Unicode decimal digit
IsDigit(c) == c \in {"0", "1", "U+0660", "U+0661"}

\* the ASCII digit with the value of a decimal digit, as str(int(...)) writes it
AsciiDigit(c) == IF c \in {"0", "U+0660"} THEN "0" ELSE "1"

\* the names of at most n characters
NamesUpTo(n) == UNION {[1..k -> Chars] : k \in 0..n}

\* the length of the match of \d+ at the start of s
RECURSIVE RunLength(_)
RunLength(s) ==
    IF s = <<>> \/ ~IsDigit(Head(s)) THEN 0 ELSE 1 + RunLength(Tail(s))

\* str.zfill, line 292: zeros "0" on the left up to the width, never a cut
zfill(number, width) ==
    IF Len(number) >= width THEN number
    ELSE [k \in 1..(width - Len(number)) |-> "0"] \o number

\* the decimal writing of a number without its leading zeros, one digit at least
RECURSIVE StripZeros(_)
StripZeros(digits) ==
    IF Len(digits) > 1 /\ Head(digits) = "0" THEN StripZeros(Tail(digits)) ELSE digits

\* str(int(number)), line 310: the value of the digits written in ASCII
remove_leading_zeros(number) ==
    StripZeros([k \in 1..Len(number) |-> AsciiDigit(number[k])])

\* NumberingHelper.pad_numbers, lines 281-296: re.sub over every match of \d+
RECURSIVE pad_numbers(_, _)
pad_numbers(filename, target_length) ==
    IF filename = <<>> THEN <<>>
    ELSE IF ~IsDigit(Head(filename))
    THEN <<Head(filename)>> \o pad_numbers(Tail(filename), target_length)
    ELSE LET k == RunLength(filename)
         IN zfill(SubSeq(filename, 1, k), target_length)
                \o pad_numbers(SubSeq(filename, k + 1, Len(filename)), target_length)

\* NumberingHelper.remove_padding, lines 298-314: re.sub over every match of \d+
RECURSIVE remove_padding(_)
remove_padding(filename) ==
    IF filename = <<>> THEN <<>>
    ELSE IF ~IsDigit(Head(filename))
    THEN <<Head(filename)>> \o remove_padding(Tail(filename))
    ELSE LET k == RunLength(filename)
         IN remove_leading_zeros(SubSeq(filename, 1, k))
                \o remove_padding(SubSeq(filename, k + 1, Len(filename)))

\* a name of at most len characters and a target length of at most width, before
\* any call
PadInit(len, width) ==
    \E filename \in NamesUpTo(len), target_length \in 0..width :
        padding = [filename |-> filename, target_length |-> target_length,
                   name |-> filename, calls |-> <<>>]

\* a call of pad_numbers on the name
PadCall ==
    /\ Len(padding.calls) < MaxPadCalls
    /\ LET renamed == pad_numbers(padding.name, padding.target_length)
       IN padding' = [padding EXCEPT
                         !.name = renamed,
                         !.calls = Append(@, [function |-> "pad_numbers",
                                              filename |-> padding.name, result |-> renamed])]
    /\ UNCHANGED runVars

\* a call of remove_padding on the name
RemovePaddingCall ==
    /\ Len(padding.calls) < MaxPadCalls
    /\ LET renamed == remove_padding(padding.name)
       IN padding' = [padding EXCEPT
                         !.name = renamed,
                         !.calls = Append(@, [function |-> "remove_padding",
                                              filename |-> padding.name, result |-> renamed])]
    /\ UNCHANGED runVars

\* the runs of the rename policy before they start, in a folder with the sources
\* and the paths of one of the sets of P, the sources named from N
FilesInit(P, N) ==
    /\ \E present \in P : fs = present \cup {<<"source", s, 0>> : s \in 1..NumFiles}
    /\ sources \in [1..NumFiles -> [zip_name : N, backup_name : N]]
    /\ job = [w \in Workers |-> [pc |-> "idle", i |-> 0, files |-> <<>>,
                                 zip_path |-> <<>>, destination |-> <<>>]]
    /\ overwritten = {}

\* the UI callbacks registered with add_ui_callback
UiCallbacks == {1, 2}

\* lines 116-123: an empty queue, no message delivered
SinkInit ==
    /\ log_queue = <<>>
    /\ ui_delivered = [cb \in UiCallbacks |-> <<>>]
    /\ submitted = 0
    /\ taken = 0

\* no direct call of the logger made yet
LogInit ==
    logcall = [n |-> 0, op |-> "none", status |-> "", original_size |-> 0,
               compressed_size |-> 0, error_msg |-> ""]

Init == EngineInit /\ ResolverInit({{}}) /\ UndoInit /\ LogInit /\ SinkInit /\ RenameInit({{}}, {<<>>}) /\ PadInit(0, 0) /\ FilesInit({{}}, {"x"}) /\ ScanInit({EmptyTree}, {<<>>})

-----------------------------------------------------------------------------
(* compress_files, one step per statement block: core/compressor.py *)

\* the file the loop of worker w is at: files[i], numbered from 1
CurrentFile(w) == loc[w].i + 1

\* CompressionResult; exit names the return statement that built it
CompressionResult(ok, l, errs, how) ==
    [success |-> ok, processed_files |-> l.processed, failed_files |-> l.failed,
     skipped_files |-> l.skipped, total_size_saved |-> l.total_saved,
     errors |-> errs, session_id |-> l.session_id, exit |-> how]

\* the result of the early returns: every counter 0
EarlyResult(w, ok, errs, how) ==
    CompressionResult(ok, [NoLocals EXCEPT !.session_id = loc[w].session_id], errs, how)

\* lines 123-124: start_time; self.is_running = True
compress_files(w, C) ==
    /\ pc[w] = "idle"
    /\ runs < MaxRuns
    /\ \E c \in C : config' = [config EXCEPT ![w] = c]
    /\ is_running' = TRUE
    /\ runs' = runs + 1
    /\ pc' = [pc EXCEPT ![w] = "reset"]
    /\ loc' = [loc EXCEPT ![w] = NoLocals]
    /\ result' = [result EXCEPT ![w] = <<>>]
    /\ eff' = [eff EXCEPT ![w] = NoEffects]
    /\ raised' = [raised EXCEPT ![w] = "none"]
    /\ stopDone' = FALSE
    /\ blockedAtStop' = FALSE
    /\ UNCHANGED <<is_paused, should_stop, pause_event, file_counter, loggerVars,
                   backup_operations, ctl, scan_total, pauseDone, ctlRun>>

ResetFlags_KeepsCounter(w) ==
    /\ pc[w] = "reset"
    /\ should_stop' = FALSE
    /\ pc' = [pc EXCEPT ![w] = "session"]
    /\ UNCHANGED <<is_running, is_paused, pause_event, file_counter, loggerVars, backup_operations,
                   config, loc, result, eff, ctl, runs, scan_total, historyVars, raised>>

\* lines 125-126: self.should_stop = False; self.file_counter = 1
ResetFlags(w) ==
    /\ pc[w] = "reset"
    /\ should_stop' = FALSE
    /\ file_counter' = 1
    /\ pc' = [pc EXCEPT ![w] = "session"]
    /\ UNCHANGED <<is_running, is_paused, pause_event, loggerVars, backup_operations,
                   config, loc, result, eff, ctl, runs, scan_total, historyVars, raised>>

\* line 129 and CustomLogger.start_session: an active session is ended first
start_session(w) ==
    /\ pc[w] = "session"
    /\ sessions_history' = end_session(current_session, sessions_history)
    /\ current_session' = << SessionStats(runs) >>
    /\ loc' = [loc EXCEPT ![w].session_id = runs]
    /\ pc' = [pc EXCEPT ![w] = "validate"]
    /\ UNCHANGED <<engineVars, backup_operations, config, result, eff, ctl, runs, scan_total,
                   historyVars, raised>>

\* lines 131-146: validation errors end the call with every counter 0
Validate(w) ==
    /\ pc[w] = "validate"
    /\ LET errs == _validate_config(config[w]) IN
       IF errs # <<>>
       THEN /\ result' = [result EXCEPT ![w] = << EarlyResult(w, FALSE, errs, "validation") >>]
            /\ pc' = [pc EXCEPT ![w] = "finally"]
       ELSE /\ pc' = [pc EXCEPT ![w] = "scan"]
            /\ UNCHANGED result
    /\ UNCHANGED <<engineVars, loggerVars, backup_operations, config, loc, eff, ctl, runs, scan_total,
                   historyVars, raised>>

\* lines 148-174: scan_directory returns n files; none ends the call with success
Scan(w) ==
    /\ pc[w] = "scan"
    /\ \E n \in 0..(NumFiles - scan_total) :
         /\ eff' = [eff EXCEPT ![w].scanned = TRUE]
         /\ scan_total' = scan_total + n
         /\ IF n = 0
            THEN /\ result' = [result EXCEPT ![w] = << EarlyResult(w, TRUE, <<>>, "empty") >>]
                 /\ pc' = [pc EXCEPT ![w] = "finally"]
                 /\ UNCHANGED <<loc, current_session>>
            ELSE /\ current_session' = update_session_stats(current_session, n)
                 /\ loc' = [loc EXCEPT ![w].total_files = n]
                 /\ pc' = [pc EXCEPT ![w] = "backup"]
                 /\ UNCHANGED result
    /\ UNCHANGED <<engineVars, sessions_history, backup_operations, config, ctl, runs,
                   historyVars, raised>>

\* lines 176-190: create_backup_folder; failure ends the call with every counter 0
CreateBackup(w, F) ==
    /\ pc[w] = "backup"
    /\ \E fails \in F :
         IF ~fails
         THEN /\ eff' = [eff EXCEPT ![w].backup_created = TRUE]
              /\ pc' = [pc EXCEPT ![w] = "loop"]
              /\ UNCHANGED result
         ELSE /\ result' = [result EXCEPT ![w] =
                    << EarlyResult(w, FALSE, <<"No se pudo crear carpeta de respaldo">>, "backup") >>]
              /\ pc' = [pc EXCEPT ![w] = "finally"]
              /\ UNCHANGED eff
    /\ UNCHANGED <<engineVars, loggerVars, backup_operations, config, loc, ctl, runs, scan_total,
                   historyVars, raised>>

Success_NoSkips(l) == l.failed = 0 /\ l.skipped = 0

\* line 334: success=failed == 0
Success(l) == l.failed = 0

\* lines 280-283, and 327-342 with 193-204 when the loop ends: the next file,
\* or the result of _process_files
LoopHead(w) ==
    /\ pc[w] = "loop"
    /\ IF loc[w].i = loc[w].total_files \/ should_stop
       THEN /\ result' = [result EXCEPT ![w] =
                  << CompressionResult(Success(loc[w]), loc[w], loc[w].errors,
                        IF loc[w].i = loc[w].total_files THEN "completed" ELSE "stopped") >>]
            /\ pc' = [pc EXCEPT ![w] = "finally"]
       ELSE /\ pc' = [pc EXCEPT ![w] = "wait"]
            /\ UNCHANGED result
    /\ raised' = [raised EXCEPT ![w] = "none"]
    /\ UNCHANGED <<engineVars, loggerVars, backup_operations, config, loc, eff, ctl, runs,
                   scan_total, historyVars>>

\* line 286: self._pause_event.wait() returns at once when the event is set; when
\* it is cleared the thread waits inside it until a set() notifies it
PauseWait(w) ==
    /\ pc[w] = "wait"
    /\ pc' = [pc EXCEPT ![w] = IF pause_event THEN "progress" ELSE "waiting"]
    /\ UNCHANGED <<engineVars, loggerVars, backup_operations, config, loc, result, eff,
                   ctl, runs, scan_total, historyVars, raised>>

\* Event.set() notifies every thread waiting inside wait(): each returns from it,
\* whatever happens to the event afterwards
Release(p) == [w \in Workers |-> IF p[w] = "waiting" THEN "progress" ELSE p[w]]

ProgressArgs_ZeroBased(l) == <<l.i, l.total_files>>

\* line 290: self.progress_callback(i + 1, total_files, file_info.name); the name
\* is that of files[i], the file CurrentFile numbers i + 1
ProgressArgs(l) == <<l.i + 1, l.total_files>>

\* lines 289-290: the progress callback, outside the try of the loop body; what it
\* raises reaches the except of compress_files, lines 206-218
Progress(w, F) ==
    /\ pc[w] = "progress"
    /\ \E raises \in F :
         IF raises
         THEN /\ result' = [result EXCEPT ![w] =
                    << EarlyResult(w, FALSE, <<"Error critico en el proceso de compresion">>, "critical") >>]
              /\ pc' = [pc EXCEPT ![w] = "finally"]
              /\ raised' = [raised EXCEPT ![w] = "progress"]
         ELSE /\ pc' = [pc EXCEPT ![w] = "name"]
              /\ UNCHANGED <<result, raised>>
    /\ eff' = [eff EXCEPT ![w].begun = Append(@, CurrentFile(w)),
                          ![w].reported = Append(@, ProgressArgs(loc[w]))]
    /\ UNCHANGED <<engineVars, loggerVars, backup_operations, config, loc, ctl, runs,
                   scan_total, historyVars>>

NextFile_Stuck(l) == l

\* line 280: the for statement takes the next file
NextFile(l) == [l EXCEPT !.i = @ + 1]

\* lines 312-314: the loop tallies an 'error' result; its error string is the
\* result's, which does not name the file (<<0, text>>)
TallyError(l, msg) ==
    NextFile([l EXCEPT !.failed = @ + 1, !.errors = Append(@, <<0, msg>>)])

\* lines 316-317: the loop tallies a 'skip' result
TallySkip(l) ==
    NextFile([l EXCEPT !.skipped = @ + 1])

\* lines 296-298: the loop tallies a 'success' result
TallySuccess(l, f) ==
    [l EXCEPT !.processed = @ + 1, !.total_saved = @ + (FileSize(f) - CompressedSize(f))]

\* lines 319-325: the except of the loop body; its error string names the file
LoopExcept(l, f) ==
    NextFile([l EXCEPT !.failed = @ + 1, !.errors = Append(@, <<f, "Error procesando">>)])

\* lines 405-413: the except of _compress_single_file, for an exception raised with
\* the session at cur and the effects at e: it logs the error and calls the file
\* callback with 'error'; it returns an 'error' result, unless the callback raises,
\* and what that raises reaches the except of the loop body
SingleFileExcept(w, F, cur, msg, e) ==
    LET f == CurrentFile(w)
        logged == log_file_operation(cur, f, "error", 0, 0, msg)
        called == [e EXCEPT !.notified = Append(@, <<f, "error">>)]
    IN  /\ pc' = [pc EXCEPT ![w] = "loop"]
        /\ \E cb_raises \in F :
             IF cb_raises
             THEN /\ loc' = [loc EXCEPT ![w] = LoopExcept(@, f)]
                  /\ current_session' =
                         log_file_operation(logged, f, "error", 0, 0, "Error procesando")
                  /\ eff' = [eff EXCEPT ![w] = [called EXCEPT !.outcomes = Append(@, <<f, "raised">>)]]
             ELSE /\ loc' = [loc EXCEPT ![w] = TallyError(@, msg)]
                  /\ current_session' = logged
                  /\ eff' = [eff EXCEPT ![w] = [called EXCEPT !.outcomes = Append(@, <<f, "error">>)]]

\* line 356, _generate_zip_name: the counter moves only when the template formats;
\* KeyError takes the fallback name, any other exception leaves the function
_generate_zip_name(w, F) ==
    /\ pc[w] = "name"
    /\ LET status == Format(SelectPattern(config[w])) IN
       /\ file_counter' = NextCounter(status, file_counter)
       /\ IF status \in {"ok", "KeyError"}
          THEN /\ pc' = [pc EXCEPT ![w] = "write"]
               /\ eff' = [eff EXCEPT ![w].names =
                             Append(@, ZipName(config[w], CurrentFile(w), status, file_counter))]
               /\ UNCHANGED <<loc, current_session, raised>>
          ELSE /\ SingleFileExcept(w, F, current_session, status, eff[w])
               /\ raised' = [raised EXCEPT ![w] = "name"]
    /\ UNCHANGED <<is_running, is_paused, should_stop, pause_event, sessions_history,
                   backup_operations, config, result, ctl, runs, scan_total, historyVars>>

ArchivePath_SkipWrites(policy, exists) ==
    IF ~exists THEN "candidate"
    ELSE IF policy = "rename" THEN "unique"
    ELSE "candidate"

\* lines 359-367: where the archive is written when the candidate path exists or
\* not: nowhere ("None") under SKIP, at a unique name under RENAME, and at the
\* candidate path itself under every other policy
ArchivePath(policy, exists) ==
    IF ~exists THEN "candidate"
    ELSE IF policy = "skip" THEN "None"
    ELSE IF policy = "rename" THEN "unique"
    ELSE "candidate"

\* lines 359-374: an existing archive path is skipped, renamed or written over
\* according to the policy, then the archive is written.  ZipFile(zip_path, 'w')
\* creates or truncates the file; when zipf.write raises, the with statement closes
\* the archive, which stays on disk without its entry.
WriteArchive(w, F, X) ==
    /\ pc[w] = "write"
    /\ LET f == CurrentFile(w)
           policy == config[w].conflict_resolution
       IN \E exists \in X, written \in {"ok"} \cup {x \in {"open_fails", "write_fails"} : TRUE \in F} :
            IF exists /\ policy \notin ConflictResolution
            THEN \* ConflictResolution(config.conflict_resolution) raises ValueError
                 /\ SingleFileExcept(w, F, current_session, "ValueError", eff[w])
                 /\ raised' = [raised EXCEPT ![w] = "conflict"]
            ELSE LET path == ArchivePath(policy, exists)
                     write == [file |-> f, exists |-> exists, path |-> path,
                               written |-> IF path = "None" THEN "no" ELSE written]
                     noted == [eff[w] EXCEPT !.writes = Append(@, write)]
                 IN IF path = "None"
                    THEN /\ current_session' =
                                log_file_operation(current_session, f, "skip", 0, 0, "Archivo ZIP ya existe")
                         /\ loc' = [loc EXCEPT ![w] = TallySkip(@)]
                         /\ pc' = [pc EXCEPT ![w] = "loop"]
                         /\ eff' = [eff EXCEPT ![w] = [noted EXCEPT !.outcomes = Append(@, <<f, "skip">>)]]
                         /\ UNCHANGED raised
                    ELSE IF written = "ok"
                    THEN /\ eff' = [eff EXCEPT ![w] = [noted EXCEPT !.archived = @ \cup {f}]]
                         /\ pc' = [pc EXCEPT ![w] = "verify"]
                         /\ UNCHANGED <<loc, current_session, raised>>
                    ELSE /\ SingleFileExcept(w, F, current_session, "OSError",
                                IF written = "write_fails"
                                THEN [noted EXCEPT !.archived = @ \cup {f}, !.unfaithful = @ \cup {f}]
                                ELSE noted)
                         /\ raised' = [raised EXCEPT ![w] = "write"]
    /\ UNCHANGED <<engineVars, sessions_history, backup_operations, config, result, ctl,
                   runs, scan_total, historyVars>>

\* What zipf.write put in the archive of file f, read back at lines 470-482: the
\* CRC of the entry is good or not and the entry has a size.  The entry carries
\* file_info.name (line 373).  Faithful(f) is the archive of the file as scanned;
\* beside it, the archive of a source that grew after the scan, and a damaged
\* archive.
Faithful(f) == [crc_ok |-> TRUE, file_size |-> FileSize(f)]

Archives(f, F) ==
    {Faithful(f)}
    \cup {a \in {[crc_ok |-> TRUE, file_size |-> FileSize(f) + 1],
                 [crc_ok |-> FALSE, file_size |-> FileSize(f)]} : TRUE \in F}

_verify_zip_integrity_Trusting(a, f) == TRUE

\* CompressorEngine._verify_zip_integrity, lines 468-485: testzip() finds no bad
\* entry and the entry's file_size is original_file.size
_verify_zip_integrity(a, f) == a.crc_ok /\ a.file_size = FileSize(f)

\* lines 376-403: verification, the success log and the file callback with
\* 'success'; a failed verification deletes the archive and returns 'error'
\* without calling the callback
VerifyAndLog(w, F) ==
    /\ pc[w] = "verify"
    /\ LET f == CurrentFile(w) IN
       \E a \in Archives(f, F), cb_raises \in F :
         IF config[w].verify_integrity /\ ~_verify_zip_integrity(a, f)
         THEN \* lines 378-383: zip_path.unlink()
              /\ eff' = [eff EXCEPT ![w].archived = @ \ {f},
                                    ![w].checked = Append(@, [file |-> f, archive |-> a]),
                                    ![w].outcomes = Append(@, <<f, "error">>)]
              /\ current_session' = log_file_operation(current_session, f, "error", 0, 0,
                                                       "Verificacion de integridad fallo")
              /\ loc' = [loc EXCEPT ![w] = TallyError(@, "Verificacion de integridad fallo")]
              /\ pc' = [pc EXCEPT ![w] = "loop"]
              /\ UNCHANGED raised
         ELSE LET logged == log_file_operation(current_session, f, "success",
                                               FileSize(f), CompressedSize(f), "")
                  kept == [eff[w] EXCEPT
                             !.notified = Append(@, <<f, "success">>),
                             !.checked = Append(@, [file |-> f, archive |-> a]),
                             !.unfaithful = IF a = Faithful(f) THEN @ ELSE @ \cup {f}]
              IN IF cb_raises
                 THEN \* the file callback raises after the success was logged
                      /\ SingleFileExcept(w, F, logged, "callback", kept)
                      /\ raised' = [raised EXCEPT ![w] = "callback"]
                 ELSE /\ current_session' = logged
                      /\ eff' = [eff EXCEPT ![w] = [kept EXCEPT !.outcomes = Append(@, <<f, "success">>)]]
                      /\ pc' = [pc EXCEPT ![w] = "relocate"]
                      /\ UNCHANGED <<loc, raised>>
    /\ UNCHANGED <<engineVars, sessions_history, backup_operations, config, result, ctl,
                   runs, scan_total, historyVars>>

move_to_backup_SkipOverwrites(policy, exists, fails) ==
    IF fails THEN "None"
    ELSE IF ~exists THEN "destination"
    ELSE IF policy = "overwrite" \/ policy = "skip" THEN "destination"
    ELSE "unique"

\* FileManager.move_to_backup, lines 217-247, with _resolve_conflict, lines 259-273:
\* the path the original was moved to, "None" when it was not moved.  The
\* destination exists or not; fails stands for whatever makes the function give
\* up: the source is gone, the backup folder cannot be made, shutil.move raises.
move_to_backup(policy, exists, fails) ==
    IF fails THEN "None"
    ELSE IF ~exists THEN "destination"
    ELSE IF policy = "overwrite" THEN "destination"
    ELSE IF policy = "skip" THEN "None"
    ELSE "unique"

\* lines 296-310 and 319-325: the success is tallied, then the original is moved
\* to the backup folder; move_to_backup returns None when it does not move
Relocate(w, F, X) ==
    /\ pc[w] = "relocate"
    /\ LET f == CurrentFile(w)
           policy == config[w].conflict_resolution
           tallied == TallySuccess(loc[w], f)
       IN IF policy \notin ConflictResolution
          THEN \* line 302 raises ValueError after processed += 1
               /\ loc' = [loc EXCEPT ![w] = LoopExcept(tallied, f)]
               /\ current_session' =
                      log_file_operation(current_session, f, "error", 0, 0, "Error procesando")
               /\ raised' = [raised EXCEPT ![w] = "relocate"]
               /\ UNCHANGED <<eff, backup_operations>>
          ELSE /\ loc' = [loc EXCEPT ![w] = NextFile(tallied)]
               /\ \E exists \in X, fails \in F :
                    LET moved_path == move_to_backup(policy, exists, fails)
                        move == [file |-> f, exists |-> exists, fails |-> fails, path |-> moved_path]
                    IN IF moved_path # "None"
                       THEN /\ eff' = [eff EXCEPT ![w].relocated = @ \cup {f},
                                                  ![w].moves = Append(@, move)]
                            /\ backup_operations' =
                                   Append(backup_operations, <<loc[w].session_id, f, moved_path>>)
                       ELSE /\ eff' = [eff EXCEPT ![w].moves = Append(@, move)]
                            /\ UNCHANGED backup_operations
               /\ UNCHANGED <<current_session, raised>>
    /\ pc' = [pc EXCEPT ![w] = "loop"]
    /\ UNCHANGED <<engineVars, sessions_history, config, result, ctl, runs, scan_total, historyVars>>

Finally_RollsBack(w) ==
    /\ pc[w] = "finally"
    /\ is_running' = FALSE
    /\ sessions_history' = end_session(current_session, sessions_history)
    /\ current_session' = <<>>
    /\ backup_operations' = IF should_stop THEN <<>> ELSE backup_operations
    /\ pc' = [pc EXCEPT ![w] = "idle"]
    /\ UNCHANGED <<is_paused, should_stop, pause_event, file_counter,
                   config, loc, result, eff, ctl, runs, scan_total, historyVars, raised>>

\* lines 220-225: finally: is_running = False, end_session; the call returns
Finally(w) ==
    /\ pc[w] = "finally"
    /\ is_running' = FALSE
    /\ sessions_history' = end_session(current_session, sessions_history)
    /\ current_session' = <<>>
    /\ pc' = [pc EXCEPT ![w] = "idle"]
    /\ UNCHANGED <<is_paused, should_stop, pause_event, file_counter, backup_operations,
                   config, loc, result, eff, ctl, runs, scan_total, historyVars, raised>>

-----------------------------------------------------------------------------
(* pause(), resume(), stop(): core/compressor.py lines 490-509 *)

\* line 492: if self.is_running
PauseCall ==
    /\ ctl = "idle"
    /\ is_running
    /\ ctl' = "pause_flag"
    /\ UNCHANGED <<engineVars, loggerVars, backup_operations, pc, config, loc, result,
                   eff, runs, scan_total, historyVars, raised>>

\* line 493: self.is_paused = True
PauseFlag ==
    /\ ctl = "pause_flag"
    /\ is_paused' = TRUE
    /\ ctl' = "pause_clear"
    /\ UNCHANGED <<is_running, should_stop, pause_event, file_counter, loggerVars,
                   backup_operations, pc, config, loc, result, eff, runs, scan_total, historyVars, raised>>

PauseClear_KeepsEvent ==
    /\ ctl = "pause_clear"
    /\ ctl' = "idle"
    /\ pauseDone' = TRUE
    /\ UNCHANGED <<engineVars, loggerVars, backup_operations, pc, config, loc, result, eff,
                   runs, scan_total, stopDone, ctlRun, blockedAtStop, raised>>

\* line 494: self._pause_event.clear()
PauseClear ==
    /\ ctl = "pause_clear"
    /\ pause_event' = FALSE
    /\ ctl' = "idle"
    /\ pauseDone' = TRUE
    /\ UNCHANGED <<is_running, is_paused, should_stop, file_counter, loggerVars,
                   backup_operations, pc, config, loc, result, eff, runs, scan_total,
                   stopDone, ctlRun, blockedAtStop, raised>>

\* line 499: if self.is_running and self.is_paused
ResumeCall ==
    /\ ctl = "idle"
    /\ pauseDone' = FALSE
    /\ ctl' = IF is_running /\ is_paused THEN "resume_flag" ELSE "idle"
    /\ UNCHANGED <<engineVars, loggerVars, backup_operations, pc, config, loc, result,
                   eff, runs, scan_total, stopDone, ctlRun, blockedAtStop, raised>>

\* line 500: self.is_paused = False
ResumeFlag ==
    /\ ctl = "resume_flag"
    /\ is_paused' = FALSE
    /\ ctl' = "resume_set"
    /\ UNCHANGED <<is_running, should_stop, pause_event, file_counter, loggerVars,
                   backup_operations, pc, config, loc, result, eff, runs, scan_total, historyVars, raised>>

\* line 501: self._pause_event.set()
ResumeSet ==
    /\ ctl = "resume_set"
    /\ pause_event' = TRUE
    /\ pc' = Release(pc)
    /\ ctl' = "idle"
    /\ UNCHANGED <<is_running, is_paused, should_stop, file_counter, loggerVars,
                   backup_operations, config, loc, result, eff, runs, scan_total, historyVars, raised>>

\* line 506: if self.is_running
StopCall ==
    /\ ctl = "idle"
    /\ pauseDone' = FALSE
    /\ IF is_running
       THEN /\ ctl' = "stop_flag"
            /\ ctlRun' = runs
            /\ blockedAtStop' = (blockedAtStop \/ (\E w \in Workers : pc[w] = "waiting"))
       ELSE /\ ctl' = "idle"
            /\ UNCHANGED <<ctlRun, blockedAtStop>>
    /\ UNCHANGED <<engineVars, loggerVars, backup_operations, pc, config, loc, result,
                   eff, runs, scan_total, stopDone, raised>>

\* line 507: self.should_stop = True
StopFlag ==
    /\ ctl = "stop_flag"
    /\ should_stop' = TRUE
    /\ ctl' = "stop_set"
    /\ UNCHANGED <<is_running, is_paused, pause_event, file_counter, loggerVars,
                   backup_operations, pc, config, loc, result, eff, runs, scan_total, historyVars, raised>>

\* line 508: self._pause_event.set()
StopSet ==
    /\ ctl = "stop_set"
    /\ pause_event' = TRUE
    /\ ctl' = "idle"
    /\ pc' = Release(pc)
    /\ stopDone' = (stopDone \/ (ctlRun = runs /\ is_running))
    /\ ctlRun' = 0
    /\ UNCHANGED <<is_running, is_paused, should_stop, file_counter, loggerVars,
                   backup_operations, config, loc, result, eff, runs, scan_total,
                   pauseDone, blockedAtStop, raised>>

-----------------------------------------------------------------------------
(* The logger called directly: core/logger.py lines 236-350 *)

\* what the engine holds, which a call of the logger leaves alone
engineSide == <<engineVars, backup_operations, pc, config, loc, result, eff, ctl, runs,
                scan_total, historyVars, raised>>

\* the record of a direct call
LogCall(op, status, original_size, compressed_size, error_msg) ==
    [n |-> logcall.n + 1, op |-> op, status |-> status, original_size |-> original_size,
     compressed_size |-> compressed_size, error_msg |-> error_msg]

\* CustomLogger.start_session, lines 248-258, called with the number of the call
\* as session_id
StartSessionCall ==
    /\ logcall.n < MaxLogCalls
    /\ sessions_history' = end_session(current_session, sessions_history)
    /\ current_session' = << SessionStats(logcall.n + 1) >>
    /\ logcall' = LogCall("start_session", "", 0, 0, "")
    /\ UNCHANGED engineSide

\* CustomLogger.end_session, lines 266-282
EndSessionCall ==
    /\ logcall.n < MaxLogCalls
    /\ sessions_history' = end_session(current_session, sessions_history)
    /\ current_session' = <<>>
    /\ logcall' = LogCall("end_session", "", 0, 0, "")
    /\ UNCHANGED engineSide

\* CustomLogger.log_file_operation, lines 309-350, called with a status the method
\* knows or one it does not, with or without an error message, for a file named by
\* the number of the call
LogFileCall ==
    /\ logcall.n < MaxLogCalls
    /\ \E status \in {"success", "error", "skip", "info"}, error_msg \in {"", "m"} :
          /\ current_session' = log_file_operation(current_session, logcall.n + 1, status,
                                                   FileSize(1), CompressedSize(1), error_msg)
          /\ logcall' = LogCall("log_file_operation", status, FileSize(1), CompressedSize(1),
                                error_msg)
    /\ UNCHANGED <<sessions_history, engineSide>>

-----------------------------------------------------------------------------
(* The log queue and its worker: core/logger.py lines 116-234 *)

\* the levels of the messages the core submits
Levels == {"INFO", "WARNING", "ERROR", "SUCCESS"}

\* line 178, getattr(logging, level.upper()): the level names the logging module
\* has as attributes; logging.addLevelName(25, 'SUCCESS') at line 152 adds none
LoggingAttributes == {"DEBUG", "INFO", "WARNING", "WARN", "ERROR", "CRITICAL", "FATAL", "NOTSET"}

\* CustomLogger.log_operation, lines 230-234: the item is put on the queue, which
\* has no size limit
log_operation ==
    /\ submitted < MaxMessages
    /\ \E level \in Levels :
          log_queue' = Append(log_queue, [id |-> submitted + 1, level |-> level])
    /\ submitted' = submitted + 1
    /\ UNCHANGED <<ui_delivered, taken, runVars>>

\* CustomLogger._log_worker, lines 168-206, one turn of its loop on the item at
\* the head of the queue: the LogRecord is built, handled, and every UI callback
\* is called; when building the record raises AttributeError, the except at line
\* 205 prints it and the loop goes on with the next item
_log_worker ==
    /\ log_queue # <<>>
    /\ log_queue' = Tail(log_queue)
    /\ taken' = taken + 1
    /\ IF Head(log_queue).level \in LoggingAttributes
       THEN ui_delivered' = [cb \in UiCallbacks |-> Append(ui_delivered[cb], Head(log_queue).id)]
       ELSE UNCHANGED ui_delivered
    /\ UNCHANGED <<submitted, runVars>>

-----------------------------------------------------------------------------
(* Rollback: core/file_manager.py lines 423-446 *)

\* lines 429-432: reverted_count = 0 and reversed(self.backup_operations), an
\* iterator that starts at the last entry the list has now
RollbackCall ==
    /\ rollback.pc = "idle"
    /\ rollback.calls < MaxRollbacks
    /\ rollback' = [pc |-> "loop", index |-> Len(backup_operations), reverted_count |-> 0,
                    returned |-> <<>>, ops |-> backup_operations, handled |-> <<>>,
                    calls |-> rollback.calls + 1]
    /\ UNCHANGED runVars

RevertEntry_StopsAtFailure(r, op, outcome) ==
    [r EXCEPT !.index = IF outcome = "raises" THEN 0 ELSE @ - 1,
              !.reverted_count = IF outcome = "moved" THEN @ + 1 ELSE @,
              !.handled = Append(@, [op |-> op, outcome |-> outcome])]

\* lines 432-441, one turn of the loop on entry op: the backup file is moved back
\* and counted ("moved"), or it is not there and nothing is done ("missing"), or
\* exists() or shutil.move raises and the except logs it ("raises"); whatever the
\* outcome the iterator steps to the entry before
RevertEntry(r, op, outcome) ==
    [r EXCEPT !.index = @ - 1,
              !.reverted_count = IF outcome = "moved" THEN @ + 1 ELSE @,
              !.handled = Append(@, [op |-> op, outcome |-> outcome])]

\* line 432: the for statement takes the next entry of the reversed list
RollbackLoop ==
    /\ rollback.pc = "loop"
    /\ rollback.index > 0
    /\ \E outcome \in {"moved", "missing", "raises"} :
          rollback' = RevertEntry(rollback, backup_operations[rollback.index], outcome)
    /\ UNCHANGED runVars

\* lines 443-446: self.backup_operations.clear() and return reverted_count
RollbackReturn ==
    /\ rollback.pc = "loop"
    /\ rollback.index = 0
    /\ backup_operations' = <<>>
    /\ rollback' = [rollback EXCEPT !.pc = "idle", !.returned = <<rollback.reverted_count>>]
    /\ UNCHANGED <<engineVars, loggerVars, pc, config, loc, result, eff, ctl, runs,
                   scan_total, historyVars, raised>>

rollback_backup_operations == RollbackCall \/ RollbackLoop \/ RollbackReturn

-----------------------------------------------------------------------------
(* Conflict resolution: core/file_manager.py lines 249-302 *)

\* line 299: if counter > 9999
MaxAttempts == 9999

\* new_path.exists() for "{base}_{n}{extension}" in the directory d
Exists(n, d) == \E iv \in d : iv[1] <= n /\ n <= iv[2]

\* The directories the resolver is tried in: empty, some numbered names taken,
\* every numbered name taken, and every one but the last or but the second.
Disks ==
    { {}, {<<1, 1>>}, {<<1, 2>>}, {<<2, 2>>},
      {<<1, MaxAttempts>>}, {<<1, MaxAttempts - 1>>}, {<<1, 1>>, <<3, MaxAttempts>>} }

\* what a call returned is a file name: numbered <<"n", k>> or timestamped <<"ts", t>>
IsName(r) == r # <<>> /\ r[1] \in {"n", "ts"}

NextAttempt_Skips(n) == n + 2

\* line 296: counter += 1
NextAttempt(n) == n + 1

\* lines 249-273 and 285-289: OVERWRITE returns the destination, SKIP returns None,
\* RENAME and ASK enter _generate_unique_name, which starts counter at 1
_resolve_conflict ==
    /\ rpc = "idle"
    /\ calls < MaxCalls
    /\ calls' = calls + 1
    /\ prevResolved' = IF IsName(resolved) THEN resolved ELSE prevResolved
    /\ \E r \in ConflictResolution :
         /\ resolution' = r
         /\ IF r = "overwrite"
            THEN /\ resolved' = <<"destination">>
                 /\ UNCHANGED <<rpc, counter, checks>>
            ELSE IF r = "skip"
            THEN /\ resolved' = <<"None">>
                 /\ UNCHANGED <<rpc, counter, checks>>
            ELSE /\ resolved' = <<>>
                 /\ rpc' = "exists"
                 /\ counter' = 1
                 /\ checks' = 0
    /\ UNCHANGED <<existing, now, createdSince, runVars>>

_generate_unique_name_Claims ==
    /\ rpc = "exists"
    /\ checks' = checks + 1
    /\ IF ~Exists(counter, existing)
       THEN /\ resolved' = <<"n", counter>>
            /\ existing' = existing \cup {<<counter, counter>>}
            /\ rpc' = "idle"
            /\ createdSince' = FALSE
            /\ UNCHANGED counter
       ELSE /\ counter' = NextAttempt(counter)
            /\ UNCHANGED existing
            /\ IF counter' > MaxAttempts
               THEN /\ resolved' = <<"ts", now>>
                    /\ rpc' = "idle"
                    /\ createdSince' = FALSE
               ELSE UNCHANGED <<resolved, rpc, createdSince>>
    /\ UNCHANGED <<now, resolution, prevResolved, calls, runVars>>

\* lines 290-302, one turn of the while loop: the numbered name is returned when
\* it does not exist; past MaxAttempts the name carries the time of the call
_generate_unique_name ==
    /\ rpc = "exists"
    /\ checks' = checks + 1
    /\ IF ~Exists(counter, existing)
       THEN /\ resolved' = <<"n", counter>>
            /\ rpc' = "idle"
            /\ createdSince' = FALSE
            /\ UNCHANGED counter
       ELSE /\ counter' = NextAttempt(counter)
            /\ IF counter' > MaxAttempts
               THEN /\ resolved' = <<"ts", now>>
                    /\ rpc' = "idle"
                    /\ createdSince' = FALSE
               ELSE UNCHANGED <<resolved, rpc, createdSince>>
    /\ UNCHANGED <<existing, now, resolution, prevResolved, calls, runVars>>

\* the caller writes the file it was given a numbered name for
\* (move_to_backup line 237, _compress_single_file line 372)
CreateResolved ==
    /\ rpc = "idle"
    /\ IsName(resolved) /\ resolved[1] = "n"
    /\ ~Exists(resolved[2], existing)
    /\ existing' = existing \cup {<<resolved[2], resolved[2]>>}
    /\ createdSince' = TRUE
    /\ UNCHANGED <<now, rpc, counter, resolution, resolved, checks, prevResolved, calls, runVars>>

\* a second passes on the clock datetime.now() reads at line 300
Tick ==
    /\ now < MaxClock
    /\ now' = now + 1
    /\ UNCHANGED <<existing, rpc, counter, resolution, resolved, checks, prevResolved,
                   createdSince, calls, runVars>>

-----------------------------------------------------------------------------
(* Runs of the rename policy on the paths of a folder: core/compressor.py lines
   290-310 and 355-384, core/file_manager.py lines 217-243 and 275-302 *)

\* the names the sources give to their archives and to their backups
NameKeys == {"x", "y"}

\* the paths that may be there before the first run
Present == SUBSET {<<"archive", "x", 0>>, <<"archive", "x", 1>>, <<"backup", "x", 0>>}

\* file_manager.py lines 289-302: the first counter from n on whose name does not
\* exist in d, -1 for the name with the timestamp past MaxAttempts
RECURSIVE FirstFree(_, _, _)
FirstFree(d, file_path, n) ==
    IF <<file_path[1], file_path[2], n>> \notin d THEN n
    ELSE IF NextAttempt(n) > MaxAttempts THEN -1
    ELSE FirstFree(d, file_path, NextAttempt(n))

\* FileManager._generate_unique_name, lines 275-302, as a function of the paths
\* that exist
UniquePath(d, file_path) == <<file_path[1], file_path[2], FirstFree(d, file_path, 1)>>

\* the file of run w's turn of the loop
JobFile(w) == job[w].files[job[w].i]

\* the loop of _process_files goes to its next file
NextSource(w) == [job EXCEPT ![w].pc = "zip", ![w].i = @ + 1]

\* compress_files lines 147-152: the run scans the folder and enters the loop
\* with the sources it found
StartRun(w) ==
    /\ job[w].pc = "idle"
    /\ job' = [job EXCEPT ![w].pc = "zip", ![w].i = 1,
                          ![w].files = SelectSeq([s \in 1..NumFiles |-> s],
                                                 LAMBDA s : <<"source", s, 0>> \in fs)]
    /\ UNCHANGED <<fs, sources, overwritten, runVars>>

\* compressor.py lines 356-367 with the policy rename: the archive path is the
\* candidate when it does not exist, a unique name when it does
ZipPath(w) ==
    /\ job[w].pc = "zip"
    /\ IF job[w].i > Len(job[w].files)
       THEN job' = [job EXCEPT ![w].pc = "done"]
       ELSE LET candidate == <<"archive", sources[JobFile(w)].zip_name, 0>>
            IN job' = [job EXCEPT
                          ![w].pc = "write",
                          ![w].zip_path =
                              IF ArchivePath("rename", candidate \in fs) = "unique"
                              THEN UniquePath(fs, candidate) ELSE candidate]
    /\ UNCHANGED <<fs, sources, overwritten, runVars>>

\* lines 372-374: ZipFile(zip_path, 'w') creates or truncates the file; zipf.write
\* raises when the source is gone, and the file is counted as failed
WriteZip(w) ==
    /\ job[w].pc = "write"
    /\ fs' = fs \cup {job[w].zip_path}
    /\ overwritten' = IF job[w].zip_path \in fs THEN overwritten \cup {job[w].zip_path}
                      ELSE overwritten
    /\ job' = IF <<"source", JobFile(w), 0>> \in fs
              THEN [job EXCEPT ![w].pc = "verify"] ELSE NextSource(w)
    /\ UNCHANGED <<sources, runVars>>

\* lines 377-384: an archive that fails the verification is deleted
VerifyZip(w) ==
    /\ job[w].pc = "verify"
    /\ \E intact \in BOOLEAN :
          IF intact
          THEN job' = [job EXCEPT ![w].pc = "dest"] /\ UNCHANGED fs
          ELSE job' = NextSource(w) /\ fs' = fs \ {job[w].zip_path}
    /\ UNCHANGED <<sources, overwritten, runVars>>

\* file_manager.py lines 217-234 with the policy rename: None when the source
\* does not exist, else the destination, a unique name when it exists
Destination(w) ==
    /\ job[w].pc = "dest"
    /\ LET candidate == <<"backup", sources[JobFile(w)].backup_name, 0>>
           moved == move_to_backup("rename", candidate \in fs,
                                   <<"source", JobFile(w), 0>> \notin fs)
       IN job' = IF moved = "None" THEN NextSource(w)
                 ELSE [job EXCEPT
                          ![w].pc = "move",
                          ![w].destination = IF moved = "unique"
                                             THEN UniquePath(fs, candidate) ELSE candidate]
    /\ UNCHANGED <<fs, sources, overwritten, runVars>>

\* file_manager.py lines 236-247: shutil.move replaces a file at the destination;
\* it raises when the source is gone, and move_to_backup returns None
MoveFile(w) ==
    /\ job[w].pc = "move"
    /\ IF <<"source", JobFile(w), 0>> \in fs
       THEN /\ fs' = (fs \ {<<"source", JobFile(w), 0>>}) \cup {job[w].destination}
            /\ overwritten' = IF job[w].destination \in fs
                              THEN overwritten \cup {job[w].destination} ELSE overwritten
       ELSE UNCHANGED <<fs, overwritten>>
    /\ job' = NextSource(w)
    /\ UNCHANGED <<sources, runVars>>

RenameRun(w) ==
    StartRun(w) \/ ZipPath(w) \/ WriteZip(w) \/ VerifyZip(w) \/ Destination(w) \/ MoveFile(w)

-----------------------------------------------------------------------------
(* Specifications *)

\* One thread's compress_files call.  F is what the environment may do wrong
\* (BOOLEAN: a write or a verification that fails, a callback that raises, a move
\* that does not happen; {FALSE}: none of it), X whether the archive path and the
\* backup path of a file may exist already, C the configurations the caller may
\* pass.
Worker(w, F, X, C) ==
    \/ compress_files(w, C)
    \/ ResetFlags(w)
    \/ start_session(w)
    \/ Validate(w)
    \/ Scan(w)
    \/ CreateBackup(w, F)
    \/ LoopHead(w)
    \/ PauseWait(w)
    \/ Progress(w, F)
    \/ _generate_zip_name(w, F)
    \/ WriteArchive(w, F, X)
    \/ VerifyAndLog(w, F)
    \/ Relocate(w, F, X)
    \/ Finally(w)

Control ==
    \/ PauseCall \/ PauseFlag \/ PauseClear
    \/ ResumeCall \/ ResumeFlag \/ ResumeSet
    \/ StopCall \/ StopFlag \/ StopSet

\* Spec: one worker thread makes its calls one after the other, with every
\* configuration, on a file system and with callbacks that can fail.
Next == Worker(1, BOOLEAN, BOOLEAN, Configs) /\ UNCHANGED <<resolverVars, undoVars, logVars, scanVars, sinkVars, renameVars, padVars, fileVars>>

Spec == Init /\ [][Next]_vars

\* SpecCtl: the worker thread, and the control thread calling pause(), resume()
\* and stop() at any moment; the default configuration.
NextCtl == (Worker(1, BOOLEAN, {FALSE}, {BaseConfig}) \/ Control) /\ UNCHANGED <<resolverVars, undoVars, logVars, scanVars, sinkVars, renameVars, padVars, fileVars>>

SpecCtl == Init /\ [][NextCtl]_vars

\* SpecConc: two threads call compress_files on the same engine; the default
\* configuration, nothing fails.
NextConc == (\E w \in Workers : Worker(w, {FALSE}, {FALSE}, {BaseConfig})) /\ UNCHANGED <<resolverVars, undoVars, logVars, scanVars, sinkVars, renameVars, padVars, fileVars>>

SpecConc == Init /\ [][NextConc]_vars

\* SpecExit: the worker thread and a control thread that calls stop() at any
\* moment, with a valid, an invalid and a skipping configuration: every return
\* statement of compress_files is taken.
ExitConfigs ==
    {BaseConfig,
     [BaseConfig EXCEPT !.compression_level = 10],
     [BaseConfig EXCEPT !.conflict_resolution = "skip"]}

NextExit ==
    (Worker(1, BOOLEAN, BOOLEAN, ExitConfigs) \/ StopCall \/ StopFlag \/ StopSet) /\ UNCHANGED <<resolverVars, undoVars, logVars, scanVars, sinkVars, renameVars, padVars, fileVars>>

SpecExit == Init /\ [][NextExit]_vars

\* SpecRename: one thread resolves conflicts on the same colliding path, call
\* after call, creating or not the name it was given, while the clock runs.
InitRename ==
    EngineInit /\ ResolverInit(Disks) /\ UndoInit /\ LogInit /\ SinkInit /\ RenameInit({{}}, {<<>>}) /\ PadInit(0, 0) /\ FilesInit({{}}, {"x"}) /\ ScanInit({EmptyTree}, {<<>>})

NextRename ==
    (_resolve_conflict \/ _generate_unique_name \/ CreateResolved \/ Tick)
        /\ UNCHANGED <<undoVars, logVars, scanVars, sinkVars, renameVars, padVars, fileVars>>

SpecRename == InitRename /\ [][NextRename]_vars

\* SpecScan: one scan_directory call on every tree, with every filter list, with
\* and without subfolders.
InitScan == EngineInit /\ ResolverInit({{}}) /\ UndoInit /\ LogInit /\ SinkInit /\ RenameInit({{}}, {<<>>}) /\ PadInit(0, 0) /\ FilesInit({{}}, {"x"}) /\ ScanInit(Trees, FilterLists)

NextScan == ScanCall /\ UNCHANGED <<resolverVars, undoVars, logVars, sinkVars, renameVars, padVars, fileVars>>

SpecScan == InitScan /\ [][NextScan]_vars

\* SpecBatch: one FileRenamer on every folder with every operation list: a
\* preview or none, then apply_rename with or without dry_run.
InitBatch ==
    EngineInit /\ ResolverInit({{}}) /\ UndoInit /\ LogInit /\ SinkInit
        /\ RenameInit(SUBSET Stems \ {{}}, OperationLists) /\ PadInit(0, 0) /\ FilesInit({{}}, {"x"}) /\ ScanInit({EmptyTree}, {<<>>})

NextBatch ==
    (PreviewCall \/ ApplyCall \/ ApplyEntry \/ ApplyReturn)
        /\ UNCHANGED <<resolverVars, undoVars, logVars, scanVars, sinkVars, padVars, fileVars>>

SpecBatch == InitBatch /\ [][NextBatch]_vars

\* SpecPad: pad_numbers and remove_padding called in any order on every name
\* with every target length.
InitPad ==
    EngineInit /\ ResolverInit({{}}) /\ UndoInit /\ LogInit /\ SinkInit
        /\ RenameInit({{}}, {<<>>}) /\ PadInit(MaxNameLen, MaxPadding) /\ FilesInit({{}}, {"x"})
        /\ ScanInit({EmptyTree}, {<<>>})

NextPad ==
    (PadCall \/ RemovePaddingCall)
        /\ UNCHANGED <<resolverVars, undoVars, logVars, scanVars, sinkVars, renameVars, fileVars>>

SpecPad == InitPad /\ [][NextPad]_vars

\* SpecFiles: compress_files called by two threads with the policy rename on one
\* folder, whose sources share archive names and backup names or not.
InitFiles ==
    EngineInit /\ ResolverInit({{}}) /\ UndoInit /\ LogInit /\ SinkInit
        /\ RenameInit({{}}, {<<>>}) /\ PadInit(0, 0) /\ FilesInit(Present, NameKeys)
        /\ ScanInit({EmptyTree}, {<<>>})

NextFiles ==
    (\E w \in Workers : RenameRun(w))
        /\ UNCHANGED <<resolverVars, undoVars, logVars, scanVars, sinkVars, renameVars, padVars>>

SpecFiles == InitFiles /\ [][NextFiles]_vars

\* SpecSink: threads submit messages with log_operation while the log worker
\* takes them from the queue.
NextSink ==
    (log_operation \/ _log_worker)
        /\ UNCHANGED <<resolverVars, undoVars, logVars, scanVars, renameVars, padVars, fileVars>>

SpecSink == Init /\ [][NextSink]_vars

\* SpecLog: one thread calls start_session, log_file_operation and end_session
\* in any order.
NextLog ==
    (StartSessionCall \/ EndSessionCall \/ LogFileCall)
        /\ UNCHANGED <<resolverVars, undoVars, scanVars, sinkVars, renameVars, padVars, fileVars>>

SpecLog == Init /\ [][NextLog]_vars

\* SpecUndo: the worker thread, a control thread that calls stop() at any moment,
\* and a thread that calls rollback_backup_operations at any moment; the default
\* configuration, nothing fails in the run, anything can in the rollback.
NextUndo ==
    \/ (Worker(1, {FALSE}, {FALSE}, {BaseConfig}) \/ StopCall \/ StopFlag \/ StopSet)
          /\ UNCHANGED <<resolverVars, undoVars, logVars, scanVars, sinkVars, renameVars, padVars, fileVars>>
    \/ rollback_backup_operations /\ UNCHANGED <<resolverVars, logVars, scanVars, sinkVars, renameVars, padVars, fileVars>>

SpecUndo == Init /\ [][NextUndo]_vars

-----------------------------------------------------------------------------
(* Properties *)

Returned(w) == result[w] # <<>>
Res(w)      == result[w][1]

\* the positions of the per-file loop
LoopPcs == {"loop", "wait", "waiting", "progress", "name", "write", "verify", "relocate"}

\* the positions between the pause check and the outcome of a file
FilePcs == {"progress", "name", "write", "verify", "relocate"}

\* C1: a call that passed validation, scanned at least one file and was not
\* stopped returns processed_files + failed_files + skipped_files equal to the
\* number of scanned files.  Stated for the calls whose loop handled every file.
C1_CountersSumToScanned ==
    \A w \in Workers :
        (Returned(w) /\ Res(w).exit = "completed")
        => Res(w).processed_files + Res(w).failed_files + Res(w).skipped_files
               = loc[w].total_files

\* C2: between two files of the loop, the counters of the active session add up
\* to the number of files completed so far.
C2_SessionCountsCompletedFiles ==
    \A w \in Workers :
        (pc[w] = "loop" /\ current_session # <<>>)
        => current_session[1].processed_files + current_session[1].failed_files
               + current_session[1].skipped_files = loc[w].i

\* C3: once stop() has been called the run starts no further file; stated for its
\* case of a worker that was blocked on the pause wait when stop() was called:
\* that worker does not go on to the file it was waiting before.
C3_NoFileStartsAfterStop ==
    [][blockedAtStop => \A w \in Workers : (pc'[w] = "progress" => pc[w] = "progress")]_vars

\* C4: after stop() has returned on a run, its worker is never blocked on the
\* pause wait, whatever pause() and resume() calls follow.
C4_StoppedWorkerNeverBlocked ==
    stopDone => \A w \in Workers : pc[w] # "waiting"

\* C5: a compress_files call made while another call is in its run is rejected:
\* no two calls are ever inside the per-file loop together.
C5_SecondStartRejected ==
    \A v, w \in Workers : (v # w /\ pc[v] \in LoopPcs) => pc[w] \notin LoopPcs

\* C6: after pause() has returned on a running engine, and until resume() or
\* stop() is called, no worker passes the pause check: a worker before it stays
\* before it, and only the file already past it goes on.
C6_PausedWorkerStartsNoFile ==
    [][(pauseDone /\ pauseDone')
         => \A w \in Workers : (pc[w] \in {"loop", "wait", "waiting"} => pc'[w] \notin FilePcs)]_vars

C6_Witness ==
    \E w \in Workers : pauseDone /\ pc[w] = "waiting" /\ loc[w].i = 1

\* C7: whatever pause() and resume() calls are made, no file is begun twice in a
\* run, and a worker that has begun a file always has a step to take: it waits
\* nowhere but at the pause check between files.
C7_OncePerFileAndNeverSuspended ==
    \A w \in Workers :
        /\ \A j, k \in 1..Len(eff[w].begun) : j # k => eff[w].begun[j] # eff[w].begun[k]
        /\ pc[w] \in FilePcs => ENABLED Worker(w, BOOLEAN, {FALSE}, {BaseConfig})

C7_Witness ==
    \E w \in Workers : pc[w] = "verify" /\ ~pause_event /\ is_paused /\ Len(eff[w].begun) = 2

\* C8: an exception raised in a step of the loop body of file i counts the file
\* once, as failed and as nothing else, and the loop goes on with the next file.
\* Stated for the steps inside the try of the loop body.
C8_ExceptionCountsFileOnceAsFailed ==
    [][\A w \in Workers :
          (raised[w] = "none" /\ raised'[w] \notin {"none", "progress"})
          => /\ loc'[w].failed = loc[w].failed + 1
             /\ loc'[w].processed = loc[w].processed
             /\ loc'[w].skipped = loc[w].skipped
             /\ loc'[w].i = loc[w].i + 1
             /\ pc'[w] = "loop"]_vars

\* the configurations C9 names: source folder missing, not a directory or
\* unreadable; compression level outside 0..9; unknown naming pattern
InvalidConfig(c) ==
    \/ c.source \in {"missing", "file", "unreadable"}
    \/ c.compression_level < 0
    \/ c.compression_level > 9
    \/ c.naming_pattern \notin
         {"fecha_archivo", "archivo_fecha", "contador_archivo", "timestamp_archivo",
          "nombre_original", "personalizado"}

\* C9: a call whose configuration fails validation scans, archives and relocates
\* nothing and creates no backup folder, and returns success = FALSE with
\* processed, failed and skipped all 0.
C9_ValidationFailureTouchesNothing ==
    \A w \in Workers :
        InvalidConfig(config[w])
        => /\ eff[w] = NoEffects
           /\ pc[w] \notin {"scan", "backup"} \cup LoopPcs
           /\ Returned(w) => /\ ~Res(w).success
                             /\ Res(w).exit = "validation"
                             /\ Res(w).processed_files = 0
                             /\ Res(w).failed_files = 0
                             /\ Res(w).skipped_files = 0

C9_Witness ==
    \E w \in Workers :
        /\ Returned(w) /\ pc[w] = "idle"
        /\ config[w].compression_level = 10
        /\ Res(w).exit = "validation"

\* C10: a call with naming pattern "personalizado" and an empty custom pattern
\* fails validation and touches no file.
C10_EmptyCustomPatternFailsValidation ==
    \A w \in Workers :
        (Returned(w) /\ config[w].naming_pattern = "personalizado"
                     /\ config[w].custom_pattern = <<>>)
        => /\ Res(w).exit = "validation"
           /\ ~Res(w).success
           /\ eff[w] = NoEffects

\* the return statements that report a failure found before or outside the loop
EarlyFailures == {"validation", "backup", "critical"}

\* C11 as stated: on every exit path, success is true exactly when
\* failed_files is 0.
C11_SuccessIffNoFailedOnEveryPath ==
    \A w \in Workers :
        Returned(w) => (Res(w).success <=> Res(w).failed_files = 0)

\* C11: a result built by the per-file loop (normal completion or stop) or by the
\* empty-scan return has success true exactly when failed_files is 0, skipped files
\* never making it false; the results of a validation failure, a backup-folder
\* failure and a critical exception have success false with failed_files 0.
C11_SuccessIffNoFailedAfterLoop ==
    \A w \in Workers :
        Returned(w)
        => /\ Res(w).exit \notin EarlyFailures
                => (Res(w).success <=> Res(w).failed_files = 0)
           /\ Res(w).exit \in EarlyFailures
                => (~Res(w).success /\ Res(w).failed_files = 0)

C11_Witness ==
    \E w \in Workers :
        /\ Returned(w) /\ Res(w).exit = "stopped"
        /\ Res(w).skipped_files = 1 /\ Res(w).processed_files = 0 /\ Res(w).success

\* C12: when a compress_files call has returned, is_running is false, the logger
\* has no active session, and the sessions history holds one ended session per
\* call made so far, the last of them this call's; while a call is under way the
\* history holds the sessions of the calls before it and nothing of its own.
C12_OneSessionPerCall ==
    \A w \in Workers :
        /\ (pc[w] = "idle" /\ Returned(w))
              => /\ ~is_running
                 /\ current_session = <<>>
                 /\ Len(sessions_history) = runs
                 /\ sessions_history[runs].session_id = Res(w).session_id
                 /\ sessions_history[runs].ended
        /\ pc[w] \notin {"idle", "reset", "session"}
              => /\ Len(sessions_history) = runs - 1
                 /\ current_session # <<>>
                 /\ current_session[1].session_id = runs

C12_Witness ==
    \E w \in Workers :
        /\ pc[w] = "idle" /\ Returned(w) /\ Res(w).exit = "stopped"
        /\ runs = 2 /\ Len(sessions_history) = 2
        /\ sessions_history[1].session_id = 1

\* C13: when a compress_files call has returned, the processed, failed and
\* skipped figures of its result are those of the session end_session froze for
\* it, and total_size_saved is that session's total_original_size minus its
\* total_compressed_size.
C13_ResultEqualsEndedSession ==
    \A w \in Workers :
        (pc[w] = "idle" /\ Returned(w) /\ Len(sessions_history) = runs)
        => LET s == sessions_history[runs] IN
           /\ Res(w).processed_files = s.processed_files
           /\ Res(w).failed_files = s.failed_files
           /\ Res(w).skipped_files = s.skipped_files
           /\ Res(w).total_size_saved = s.total_original_size - s.total_compressed_size

\* C14: the progress callback is called once for each file the loop handles,
\* before the processing of that file, with (i + 1, total): the calls made so far
\* report 1, 2, ..., k in scan order, k being the number of files completed plus
\* the one being processed.
C14_ProgressOncePerFileInOrder ==
    \A w \in Workers :
        LET r == eff[w].reported IN
        /\ \A j \in 1..Len(r) : r[j] = <<j, loc[w].total_files>> /\ eff[w].begun[j] = j
        /\ Len(eff[w].begun) = Len(r)
        /\ pc[w] \in {"loop", "wait", "waiting", "progress"} => Len(r) = loc[w].i
        /\ pc[w] \in {"name", "write", "verify", "relocate"} => Len(r) = loc[w].i + 1
        /\ (Returned(w) /\ Res(w).exit = "completed") => Len(r) = loc[w].total_files

C14_Witness ==
    \E w \in Workers :
        /\ pc[w] = "relocate" /\ is_paused
        /\ eff[w].reported = << <<1, 2>>, <<2, 2>> >>

\* C15: between two files of the loop, the file callback has been called exactly
\* once for each file handled so far, whatever the outcome of the file.
C15_FileCallbackOncePerFile ==
    \A w \in Workers :
        pc[w] = "loop"
        => /\ Len(eff[w].notified) = loc[w].i
           /\ \A j \in 1..Len(eff[w].notified) : eff[w].notified[j][1] = j

\* the templates that substitute {contador}
UsesContador(c) ==
    \E k \in 1..Len(Placeholders(SelectPattern(c))) : Placeholders(SelectPattern(c))[k] = "contador"

\* C16: in a run whose template uses {contador}, the j-th name generated carries
\* the counter value j, for the j-th file in scan order: the values start at 1 in
\* every run and have no gap or repeat, also after files that were skipped or
\* failed; the counter is always one more than the number of names generated.
C16_CounterValuesAreSequential ==
    \A w \in Workers :
        (UsesContador(config[w]) /\ Format(SelectPattern(config[w])) = "ok")
        => /\ \A j \in 1..Len(eff[w].names) :
                  eff[w].names[j].contador = j /\ eff[w].names[j].stem = j
           /\ pc[w] \in LoopPcs => file_counter = Len(eff[w].names) + 1

C16_Witness ==
    \E w \in Workers :
        /\ runs = 2 /\ pc[w] = "write" /\ loc[w].skipped = 1
        /\ Len(eff[w].names) = 2 /\ eff[w].names[2].contador = 2

\* C17: _generate_zip_name never raises, whatever the template.
C17_NamingNeverRaises ==
    \A w \in Workers : raised[w] # "name"

\* C18: file_counter changes only at the reset of a run start, which sets it to 1,
\* and in _generate_zip_name, which adds exactly one when the substitution succeeds
\* and nothing when it takes the fallback or raises.
C18_CounterMovesOnlyOnSuccessfulNaming ==
    [][/\ \A w \in Workers :
             (pc[w] = "name" /\ pc'[w] # "name")
             => file_counter' = IF Format(SelectPattern(config[w])) = "ok"
                                THEN file_counter + 1 ELSE file_counter
       /\ file_counter' # file_counter
             => \E w \in Workers :
                   \/ pc[w] = "name" /\ pc'[w] = "write"
                   \/ pc[w] = "reset" /\ pc'[w] = "session" /\ file_counter' = 1]_vars

C18_Witness ==
    \E w \in Workers :
        /\ pc[w] = "write" /\ file_counter = 1 /\ loc[w].i = 0
        /\ Len(eff[w].names) = 1 /\ eff[w].names[1].template = "fallback"

\* the numbered names below k all exist in the directory
AllTakenBelow(k) == \A m \in 1..(k - 1) : Exists(m, existing)

\* C19: a rename resolution returns "{stem}_{n}{ext}" for the smallest n >= 1
\* whose path does not exist, after n existence checks; when every n of
\* 1..9999 exists it returns a timestamp-suffixed name after 9999 checks; no
\* call makes more than 9999 checks.
C19_RenameReturnsSmallestFreeName ==
    /\ checks <= MaxAttempts
    /\ (rpc = "idle" /\ IsName(resolved) /\ resolved[1] = "n")
         => /\ resolved[2] >= 1 /\ resolved[2] <= MaxAttempts
            /\ AllTakenBelow(resolved[2])
            /\ ~createdSince => ~Exists(resolved[2], existing)
            /\ checks = resolved[2]
    /\ (rpc = "idle" /\ IsName(resolved) /\ resolved[1] = "ts")
         => /\ AllTakenBelow(MaxAttempts + 1)
            /\ checks = MaxAttempts

C19_Witness ==
    /\ rpc = "idle" /\ resolved = <<"ts", 1>> /\ prevResolved = <<"n", MaxAttempts>>

\* C20 as stated: a rename resolution that follows another one whose name was not
\* created returns the same name.
C20_RenameTwiceSameName ==
    [][(rpc = "exists" /\ rpc' = "idle" /\ IsName(prevResolved) /\ ~createdSince)
         => resolved' = prevResolved]_vars

\* C20: a rename resolution that follows another one returns the same numbered
\* name when that name was not created, and a later numbered name (or, none
\* being free, the timestamped name) once it was created; a timestamped name
\* carries the time of its call, so two resolutions one after the other return
\* the same one only within the same second; no step of the resolver changes
\* the directory.
C20_RenameIsIdempotentUntilCreated ==
    [][/\ (rpc = "exists" /\ rpc' = "idle" /\ IsName(prevResolved) /\ prevResolved[1] = "n")
            => IF createdSince
               THEN resolved'[1] = "ts" \/ resolved'[2] > prevResolved[2]
               ELSE resolved' = prevResolved
       /\ (rpc = "exists" /\ rpc' = "idle" /\ IsName(prevResolved) /\ prevResolved[1] = "ts")
            => resolved'[1] = "ts" /\ resolved'[2] >= prevResolved[2]
       /\ (rpc' # rpc \/ counter' # counter \/ calls' # calls) => existing' = existing]_vars

C20_Witness ==
    /\ rpc = "idle" /\ calls = 3 /\ ~createdSince
    /\ prevResolved = <<"n", 2>> /\ resolved = <<"n", 2>> /\ Exists(1, existing)

\* the last write, verification and move a worker made
LastWrite(e) == e.writes[Len(e.writes)]
LastChecked(e) == e.checked[Len(e.checked)]
LastMove(e) == e.moves[Len(e.moves)]

\* the outcomes _compress_single_file returned for file f
OutcomesOf(e, f) == {e.outcomes[j][2] : j \in {k \in 1..Len(e.outcomes) : e.outcomes[k][1] = f}}

\* C21: wherever the core resolves a conflict, policy ask does what policy rename
\* does: an archive written for an existing archive path, and an original moved
\* to an existing backup path, go to a unique name beside the existing file.
C21_AskResolvesAsRename ==
    \A w \in Workers :
        config[w].conflict_resolution = "ask"
        => /\ \A j \in 1..Len(eff[w].writes) :
                  eff[w].writes[j].exists => eff[w].writes[j].path = "unique"
           /\ \A j \in 1..Len(eff[w].moves) :
                  (eff[w].moves[j].exists /\ ~eff[w].moves[j].fails)
                  => eff[w].moves[j].path = "unique"

\* C22: when the archive path of a file exists and the policy is skip, the
\* archive writer is not invoked and no archive is written or changed, the source
\* is not relocated, and the file is counted as skipped and as nothing else.
C22_SkipLeavesExistingArchive ==
    [][\A w \in Workers :
          (/\ pc[w] = "write" /\ pc'[w] # "write"
           /\ Len(eff'[w].writes) = Len(eff[w].writes) + 1
           /\ LastWrite(eff'[w]).exists
           /\ config[w].conflict_resolution = "skip")
          => /\ LastWrite(eff'[w]).written = "no"
             /\ eff'[w].archived = eff[w].archived
             /\ eff'[w].unfaithful = eff[w].unfaithful
             /\ eff'[w].relocated = eff[w].relocated
             /\ backup_operations' = backup_operations
             /\ loc'[w].skipped = loc[w].skipped + 1
             /\ loc'[w].processed = loc[w].processed
             /\ loc'[w].failed = loc[w].failed
             /\ current_session'[1].skipped_files = current_session[1].skipped_files + 1
             /\ pc'[w] = "loop"]_vars

C22_Witness ==
    \E w \in Workers :
        /\ pc[w] = "loop" /\ config[w].conflict_resolution = "skip"
        /\ eff[w].writes # <<>> /\ LastWrite(eff[w]).exists /\ LastWrite(eff[w]).written = "no"
        /\ loc[w].skipped = 1 /\ eff[w].archived = {} /\ eff[w].relocated = {}

\* C23: when verification is on and the archive just written fails it (a bad CRC
\* or an entry whose size is not the source's), the archive is deleted, the file
\* is counted as failed, the source is not relocated and no BackupOperation is
\* recorded.
C23_FailedVerificationDeletesArchive ==
    [][\A w \in Workers :
          (/\ pc[w] = "verify" /\ pc'[w] # "verify"
           /\ config[w].verify_integrity
           /\ LastChecked(eff'[w]).archive # Faithful(CurrentFile(w)))
          => /\ CurrentFile(w) \notin eff'[w].archived
             /\ CurrentFile(w) \notin eff'[w].relocated
             /\ eff'[w].relocated = eff[w].relocated
             /\ backup_operations' = backup_operations
             /\ loc'[w].failed = loc[w].failed + 1
             /\ loc'[w].processed = loc[w].processed
             /\ loc'[w].skipped = loc[w].skipped
             /\ current_session'[1].failed_files = current_session[1].failed_files + 1
             /\ pc'[w] = "loop"]_vars

C23_Witness ==
    \E w \in Workers :
        /\ pc[w] = "loop" /\ config[w].verify_integrity
        /\ eff[w].checked # <<>> /\ ~LastChecked(eff[w]).archive.crc_ok
        /\ LastChecked(eff[w]).file = 2 /\ eff[w].archived = {1} /\ loc[w].failed = 1

\* C24: with verification on, a file either succeeds and leaves an archive
\* holding the source faithfully, or ends in error and leaves no archive at the
\* destination, also when the failure happens while the archive is written.
C24_SuccessOrNoArchive ==
    \A w \in Workers :
        (pc[w] = "loop" /\ config[w].verify_integrity)
        => \A j \in 1..Len(eff[w].outcomes) :
              LET f == eff[w].outcomes[j][1]
                  outcome == eff[w].outcomes[j][2]
              IN \/ outcome = "success" /\ f \in eff[w].archived /\ f \notin eff[w].unfaithful
                 \/ outcome = "skip"
                 \/ outcome \in {"error", "raised"} /\ f \notin eff[w].archived

Moved(handled) == Cardinality({j \in 1..Len(handled) : handled[j].outcome = "moved"})

\* C26: rollback_backup_operations handles the recorded operations in reverse
\* order of recording, moving each backup file that is there back; a failure on
\* one entry does not stop the entries before it from being handled; when it
\* returns every entry has been handled, the list is empty and the value returned
\* is the number of files moved back; a rollback called on the empty list handles
\* nothing and returns 0.
C26_RollbackHandlesAllInReverse ==
    [][LET r == rollback'
           n == Len(r.ops)
       IN /\ \A j \in 1..Len(r.handled) : r.handled[j].op = r.ops[n - j + 1]
          /\ r.pc = "loop" => r.index = n - Len(r.handled)
          /\ r.reverted_count = Moved(r.handled)
          /\ (rollback.pc = "loop" /\ r.pc = "idle")
                => /\ Len(r.handled) = n
                   /\ backup_operations' = <<>>
                   /\ r.returned = <<Moved(r.handled)>>
                   /\ n = 0 => r.returned = <<0>>]_vars

C26_Witness ==
    /\ rollback.pc = "idle" /\ rollback.returned = <<1>>
    /\ Len(rollback.ops) = 2 /\ Len(rollback.handled) = 2
    /\ rollback.handled[1].outcome = "raises" /\ rollback.handled[1].op[2] = 2
    /\ rollback.handled[2].outcome = "moved" /\ rollback.handled[2].op[2] = 1
    /\ backup_operations = <<>>

\* C27: a step of stop(), and a step by which a stopped run ends, leave the
\* archives and the relocations of the run and the recorded operations as they
\* are; the recorded operations are never taken back but by a step of
\* rollback_backup_operations.
C27_StopRollsNothingBack ==
    [][/\ ctl' # ctl => (backup_operations' = backup_operations /\ eff' = eff)
       /\ \A w \in Workers :
             (should_stop /\ pc[w] \in {"loop", "finally"} /\ pc'[w] # pc[w])
             => (backup_operations' = backup_operations /\ eff' = eff)
       /\ rollback' = rollback
             => /\ Len(backup_operations') >= Len(backup_operations)
                /\ SubSeq(backup_operations', 1, Len(backup_operations)) = backup_operations]_vars

C27_Witness ==
    \E w \in Workers :
        /\ pc[w] = "idle" /\ Returned(w) /\ Res(w).exit = "stopped"
        /\ Len(backup_operations) = 1 /\ eff[w].relocated = {1} /\ eff[w].archived = {1}
        /\ loc[w].total_files = 2 /\ rollback.calls = 0

\* the sessions of the history are kept as they were
HistoryKept == SubSeq(sessions_history', 1, Len(sessions_history)) = sessions_history

\* C28: the logger has at most one active session: start_session called while a
\* session is active ends it first, so that it is appended to the history with its
\* end_time set, before the new session becomes current; every session of the
\* history has its end_time set and is not the current session.
C28_OneActiveSession ==
    /\ [](/\ Len(current_session) <= 1
          /\ \A j \in 1..Len(sessions_history) :
                /\ sessions_history[j].ended
                /\ current_session # <<>>
                      => /\ ~current_session[1].ended
                         /\ sessions_history[j].session_id # current_session[1].session_id)
    /\ [][(logcall'.n # logcall.n /\ logcall'.op = "start_session")
            => /\ current_session' = << SessionStats(logcall'.n) >>
               /\ IF current_session # <<>>
                  THEN sessions_history' =
                          Append(sessions_history, [current_session[1] EXCEPT !.ended = TRUE])
                  ELSE sessions_history' = sessions_history]_vars

C28_Witness ==
    /\ logcall.op = "start_session" /\ logcall.n = 3
    /\ Len(sessions_history) = 1 /\ sessions_history[1].processed_files = 1
    /\ current_session # <<>> /\ current_session[1].session_id = 3

\* C29 as stated: every log_file_operation call with status error on an active
\* session appends to its errors list, and every call with status skip to its
\* warnings list.
C29_ErrorAndSkipAlwaysAppend ==
    [][(logcall'.n # logcall.n /\ logcall'.op = "log_file_operation" /\ current_session # <<>>)
         => /\ logcall'.status = "error"
                  => Len(current_session'[1].errors) = Len(current_session[1].errors) + 1
            /\ logcall'.status = "skip"
                  => Len(current_session'[1].warnings) = Len(current_session[1].warnings) + 1]_vars

\* C29: a log_file_operation call on an active session adds one to the counter of
\* its status (success: processed, error: failed, skip: skipped) and leaves the
\* other two; only success adds to the byte totals; error appends to the errors
\* list and skip to the warnings list when the call carries a non-empty error
\* message, and nothing is appended when it carries none; with no active session
\* the call changes nothing; no call ever changes a session of the history.
C29_LogFileOperationEffect ==
    [][/\ HistoryKept
       /\ (logcall'.n # logcall.n /\ logcall'.op = "log_file_operation")
            => /\ sessions_history' = sessions_history
               /\ current_session = <<>> => current_session' = <<>>
               /\ current_session # <<>>
                    => LET s == current_session[1]
                           t == current_session'[1]
                           c == logcall'
                           One(x) == IF c.status = x THEN 1 ELSE 0
                       IN /\ Len(current_session') = 1
                          /\ t.processed_files = s.processed_files + One("success")
                          /\ t.failed_files = s.failed_files + One("error")
                          /\ t.skipped_files = s.skipped_files + One("skip")
                          /\ t.total_original_size =
                                s.total_original_size + One("success") * c.original_size
                          /\ t.total_compressed_size =
                                s.total_compressed_size + One("success") * c.compressed_size
                          /\ t.errors = IF c.status = "error" /\ c.error_msg # ""
                                        THEN Append(s.errors, <<c.n, c.error_msg>>) ELSE s.errors
                          /\ t.warnings = IF c.status = "skip" /\ c.error_msg # ""
                                          THEN Append(s.warnings, <<c.n, c.error_msg>>) ELSE s.warnings
                          /\ t.session_id = s.session_id /\ t.ended = s.ended
                          /\ t.total_files = s.total_files]_vars

C29_Witness ==
    /\ logcall.op = "log_file_operation" /\ logcall.status = "error" /\ logcall.error_msg = ""
    /\ logcall.n = 4 /\ Len(sessions_history) = 1
    /\ current_session # <<>> /\ current_session[1].failed_files = 1
    /\ current_session[1].errors = <<>>

\* entry n is reached by the scan: it is in the scanned directory or, with
\* subfolders, in a directory that is reached and can be listed
RECURSIVE Reached(_)
Reached(n) ==
    IF Parent[n] = 0 THEN root.kind = "dir" /\ root.readable
    ELSE /\ include_subfolders
         /\ tree[Parent[n]].kind = "dir" /\ tree[Parent[n]].readable
         /\ Reached(Parent[n])

\* the readable regular files reached by the scan
ReadableFiles == {n \in Entries : Reached(n) /\ tree[n].kind = "file" /\ tree[n].readable}

\* name matches pattern as a glob, letter case aside
GlobMatch(name, pattern) == fnmatch(Lower(name), Lower(pattern))

\* C30 as stated: scan_directory returns exactly the readable regular files whose
\* name matches at least one filter of the list, letter case aside, among the
\* direct children of the root without subfolders and among all the reachable
\* descendants with them.
C30_ScanReturnsFilesMatchingAFilter ==
    found # <<>>
    => found[1] = {n \in ReadableFiles :
                     \E k \in 1..Len(file_filters) : GlobMatch(tree[n].name, file_filters[k])}

\* C30: scan_directory returns exactly the readable regular files whose name
\* matches at least one filter of the list, letter case aside, or every readable
\* regular file when the list is empty or missing, among the direct children of
\* the root without subfolders and among all the reachable descendants with
\* them; without subfolders no file of a subdirectory is returned.
C30_ScanReturnsMatchingFiles ==
    found # <<>>
    => /\ found[1] = {n \in ReadableFiles :
                        \/ file_filters = <<>>
                        \/ \E k \in 1..Len(file_filters) : GlobMatch(tree[n].name, file_filters[k])}
       /\ ~include_subfolders => \A n \in found[1] : Parent[n] = 0

C30_Witness ==
    /\ found = << {1, 4} >> /\ include_subfolders
    /\ file_filters = <<>>
    /\ tree[1].name = <<"a", ".", "z">> /\ tree[4].name = <<"A", ".", "T">>
    /\ tree[2].kind = "dir" /\ tree[3].kind = "dir"

\* C31: scan_directory never raises: a root that does not exist or is not a
\* directory gives the empty list, a directory that cannot be listed loses only
\* its own subtree, and an unreadable file is left out of the list.
C31_ScanNeverRaises ==
    /\ scan_error = "none"
    /\ found # <<>>
         => /\ root.kind # "dir" => found[1] = {}
            /\ \A n \in Entries :
                  (Reached(n) /\ tree[n].kind = "file" /\ tree[n].readable
                     /\ _matches_filters(tree[n].name, file_filters))
                  => n \in found[1]
            /\ \A n \in found[1] : tree[n].readable

\* C32: every message submitted to log_operation with level INFO, WARNING, ERROR
\* or SUCCESS is handled by the log worker and delivered to every UI callback, in
\* the order of submission; stated for the messages the worker has taken from
\* the queue: each of them has been delivered to every callback, in order.
C32_HandledMessagesAreDelivered ==
    \A cb \in UiCallbacks :
        ui_delivered[cb] = [k \in 1..taken |-> k]

\* C33: the engine is paused only while a run is in progress: is_paused implies
\* is_running in every reachable state.
C33_PausedOnlyWhileRunning ==
    is_paused => is_running

\* C35: a stop() call that found is_running true is never lost: once it has
\* returned, should_stop is true whenever the worker of that run is at the stop
\* check of the loop.
C35_StopNeverLost ==
    \A w \in Workers :
        (stopDone /\ pc[w] = "loop") => should_stop

\* C36: the is_paused flag and the pause event agree: whenever no pause(),
\* resume() or stop() call is under way, is_paused is true exactly when the
\* pause event is cleared.
C36_PausedFlagMatchesEvent ==
    ctl = "idle" => (is_paused <=> ~pause_event)

\* C37: every run starts unpaused: a compress_files call that begins while no
\* control call is under way begins with the pause event set, so that the wait
\* before its first file returns without a resume() or stop() call.
C37_RunStartsUnpaused ==
    [][\A w \in Workers :
          (pc[w] = "idle" /\ pc'[w] = "reset" /\ ctl = "idle") => pause_event']_vars

\* the entries of a result list that name the file
EntriesOf(list, name) == {k \in 1..Len(list) : list[k][1] = name}

\* the preview entries apply_rename has gone through
Processed == 1..(IF renamer.pc = "idle" THEN 0 ELSE renamer.i - 1)

\* C34: a file whose computed new name equals its original name is reported by
\* the preview with has_conflict false and the reason "Sin cambios", and
\* apply_rename records it once as skipped with that reason, in no other list,
\* and leaves it on disk under its name with its content.
C34_UnchangedNameIsSkipped ==
    \A i \in 1..Len(renamer.preview_cache) :
        LET preview == renamer.preview_cache[i]
            name == preview.original_name
        IN preview.new_name = name =>
              /\ ~preview.has_conflict
              /\ preview.conflict_reason = "Sin cambios"
              /\ <<name, name>> \in disk
              /\ i \in Processed =>
                    /\ Cardinality(EntriesOf(renamer.results.skipped, name)) = 1
                    /\ \A k \in EntriesOf(renamer.results.skipped, name) :
                          renamer.results.skipped[k][2] = "Sin cambios"
                    /\ EntriesOf(renamer.results.success, name) = {}
                    /\ EntriesOf(renamer.results.errors, name) = {}

\* apply_rename without dry_run has returned after a batch with a file whose name
\* does not change next to one that was renamed
C34_Witness ==
    /\ renamer.pc = "done"
    /\ ~renamer.dry_run
    /\ renamer.results.success # <<>>
    /\ \E i \in 1..Len(renamer.preview_cache) :
          /\ renamer.preview_cache[i].new_name = renamer.preview_cache[i].original_name
          /\ EntriesOf(renamer.results.skipped, renamer.preview_cache[i].original_name) # {}

\* C39: apply_rename without dry_run never renames a file onto a path that
\* exists at that moment, no content is lost, and the three result lists add up
\* to total_processed.
C39_NoRenameOntoExistingPath ==
    /\ clobbered = {}
    /\ Cardinality(disk) = Cardinality({e[1] : e \in disk})
    /\ renamer.results.total_processed =
          Len(renamer.results.success) + Len(renamer.results.errors)
              + Len(renamer.results.skipped)

\* the lengths of the digit runs of a name, from left to right
RECURSIVE RunLengths(_)
RunLengths(s) ==
    IF s = <<>> THEN <<>>
    ELSE IF ~IsDigit(Head(s)) THEN RunLengths(Tail(s))
    ELSE <<RunLength(s)>> \o RunLengths(SubSeq(s, RunLength(s) + 1, Len(s)))

\* no digit run of the name starts with a zero that another digit follows
RECURSIVE NoLeadingZeros(_)
NoLeadingZeros(s) ==
    IF s = <<>> THEN TRUE
    ELSE IF ~IsDigit(Head(s)) THEN NoLeadingZeros(Tail(s))
    ELSE /\ ~(RunLength(s) > 1 /\ AsciiDigit(Head(s)) = "0")
         /\ NoLeadingZeros(SubSeq(s, RunLength(s) + 1, Len(s)))

\* C40: remove_padding gives back the name that pad_numbers was called on when
\* that name has no leading zeros; remove_padding called on its own result
\* changes nothing; pad_numbers keeps every digit run at least as long as it was.
C40_PaddingRoundTrip ==
    /\ \A k \in 1..(Len(padding.calls) - 1) :
          LET first == padding.calls[k]
              second == padding.calls[k + 1]
          IN /\ (first.function = "pad_numbers" /\ second.function = "remove_padding"
                    /\ NoLeadingZeros(first.filename))
                 => second.result = first.filename
             /\ (first.function = "remove_padding" /\ second.function = "remove_padding")
                 => second.result = first.result
    /\ \A k \in 1..Len(padding.calls) :
          LET call == padding.calls[k]
          IN call.function = "pad_numbers" =>
                /\ Len(RunLengths(call.result)) = Len(RunLengths(call.filename))
                /\ \A r \in 1..Len(RunLengths(call.filename)) :
                      /\ RunLengths(call.result)[r] >= RunLengths(call.filename)[r]
                      /\ RunLengths(call.filename)[r] > padding.target_length
                            => RunLengths(call.result)[r] = RunLengths(call.filename)[r]

\* C38: with the policy rename no archive is written to, and no original is
\* moved to, a path that exists at that moment.
C38_RenameNeverOverwrites == overwritten = {}

=============================================================================
